---------------------------- MODULE Spec2Model ----------------------------
(***************************************************************************)
(* Scoring, badge-eligibility and leaderboard engine of the prompt         *)
(* repository (src/api/scoring-algorithm.js) and the score triggers of the *)
(* database schema (src/supabase/migrations/20250914035626_black_crystal   *)
(* .sql).                                                                  *)
(*                                                                         *)
(* Numbers.  JavaScript numbers are IEEE-754 doubles.  Decimal quantities  *)
(* are carried as scaled integers (averageRating in hundredths, sub-score  *)
(* sums in tenths or thousandths) and Math.round is round-half-up.  The    *)
(* sample sets of inputs are chosen so that the double evaluation and the  *)
(* exact one agree on every sub-score; where the weighted sum of           *)
(* calculateScore is an exact tie k + 0.5 and the double sum falls just    *)
(* below it, the tuples are listed in Ieee754TieBelow.                     *)
(***************************************************************************)
EXTENDS Integers, Sequences, FiniteSets, TLC

VARIABLES
    promptData,     \* scoring: the PromptSignal passed to the engine
    scoreOut,       \* scoring: what the last scoring call returned
    scoreBreakdown, \* scoring: what getScoreBreakdown returned, <<>> before
    scorePc,        \* scoring: "idle" before the calls, "scored" after
                    \*          calculateScore, "explained" after
                    \*          getScoreBreakdown
    clock,          \* the wall clock read by new Date() / Date.now(), in days
    userStats,      \* badges: the UserStats snapshot the caller holds
    currentBadges,  \* badges: the held badges the caller passes ({badgeId})
    eligibleBadges, \* badges: what the last checkEligibility call returned
    badgePc,        \* badges: "idle" before any call, "checked" after one
    callStats,      \* badges: the userStats argument of the last call
    callHeld,       \* badges: the currentBadges argument of the last call
    repeatKind,     \* badges: how the last call relates to the one before it
    prevEligible,   \* badges: what the call before the last returned
    everGranted,    \* badges: the badge ids returned by the calls so far
    regranted,      \* badges: the badge ids a call returned though an
                    \*         earlier call had returned them already
    disciplined,    \* badges: every returned grant was persisted before
                    \*         the next call, so far
    collectionKind, \* boards: "users" or "prompts", what collection holds
    collection,     \* boards: the array passed to a leaderboard generator
    boardArgs,      \* boards: the other arguments (limit, categoryId, days)
    topPrompts,     \* boards: trending, the array after filter, sort, slice
    board,          \* boards: the leaderboard returned
    boardPc,        \* boards: "idle", "sorted" (inside the trending
                    \*         generator), or the kind of board returned
    ratings,        \* database: prompt_scores.score by (prompt_id, user_id),
                    \*           0 when there is no such row (committed)
    promptStatus,   \* database: prompts.status by prompt (committed)
    promptScore,    \* database: prompts.score by prompt (committed)
    userBadges,     \* database: the badges of user_badges by user
    userTotalScore,     \* database: users.total_score by user (committed)
    sessPc,         \* database: by session, "ready" or "running" a statement
    sessStmt,       \* database: by session, the statement it is running
    sessStack,      \* database: by session, the pending trigger calls
    sessLog,        \* database: by session, the triggers fired and the
                    \*           score functions called by the statement
    sessWrites,     \* database: by session, the uncommitted row writes
    statements,     \* database: the number of client statements so far
    fnName,         \* method calls: the method a caller invokes, "none" if none
    fnArgs,         \* method calls: the argument lists of its successive calls
    fnReturns       \* method calls: what the calls made so far returned

scoreVars == <<promptData, scoreOut, scoreBreakdown, scorePc>>
badgeVars == <<userStats, currentBadges, eligibleBadges, badgePc, callStats,
               callHeld, repeatKind, prevEligible, everGranted, regranted,
               disciplined>>
boardVars == <<collectionKind, collection, boardArgs, topPrompts, board,
               boardPc>>
vars == <<promptData, scoreOut, scoreBreakdown, scorePc, clock, userStats, currentBadges,
          eligibleBadges, badgePc, callStats, callHeld, repeatKind,
          prevEligible, everGranted, regranted, disciplined, collectionKind,
          collection, boardArgs, topPrompts, board, boardPc, ratings,
          promptStatus, promptScore, userBadges, userTotalScore, sessPc,
          sessStmt, sessStack, sessLog, sessWrites, statements, fnName,
          fnArgs, fnReturns>>
dbVars == <<ratings, promptStatus, promptScore, userBadges, userTotalScore,
            sessPc, sessStmt, sessStack, sessLog, sessWrites, statements>>

\* what the operations of one engine leave alone
fnVars == <<fnName, fnArgs, fnReturns>>
notScoreVars == <<clock, badgeVars, boardVars, dbVars, fnVars>>
notBadgeVars == <<scoreVars, boardVars, dbVars, fnVars>>
notBoardVars == <<scoreVars, badgeVars, dbVars, fnVars>>
notDbVars == <<scoreVars, badgeVars, boardVars, fnVars>>
notFnVars == <<clock, scoreVars, badgeVars, boardVars, dbVars>>

(***************************************************************************)
(* Helpers for JavaScript values                                           *)
(***************************************************************************)

\* An optional field of an object is <<>> when absent and <<v>> when present;
\* a destructuring default applies to an absent field.
Default(field, dflt) == IF field = <<>> THEN dflt ELSE field[1]

Min(a, b) == IF a <= b THEN a ELSE b
Max(a, b) == IF a >= b THEN a ELSE b

\* Math.round(n / d) for d > 0: the nearest integer, a tie going up.
MathRound(n, d) == (2 * n + d) \div (2 * d)

\* The doubles that are not finite numbers, carried as two integers beyond
\* every finite value of the model.  NaN is what Math.log10 returns for a
\* negative argument, -Infinity what it returns for 0.
NaN == 1000000000
NegInfinity == -1000000000
\* Infinity is what a positive number divided by 0 gives
Infinity == 2000000000
IsFiniteNumber(x) == x # NaN /\ x # NegInfinity /\ x # Infinity

(***************************************************************************)
(* PromptScoringEngine                                                     *)
(***************************************************************************)

\* this.weights, in tenths
WeightRating == 4
WeightUsage == 3
WeightRecency == 2
WeightEngagement == 1

\* this.maxScores
MaxRating == 100
MaxUsage == 50
MaxRecency == 20
MaxEngagement == 30

\* getConfidenceMultiplier, in hundredths
\* getConfidenceMultiplier with the top tier starting above 50 ratings
getConfidenceMultiplier_TopTierAbove50(ratingCount) ==
    IF ratingCount > 50 THEN 100
    ELSE IF ratingCount >= 25 THEN 95
    ELSE IF ratingCount >= 10 THEN 90
    ELSE IF ratingCount >= 5 THEN 80
    ELSE IF ratingCount >= 3 THEN 70
    ELSE 60

\* getConfidenceMultiplier with the tests for 5 and for 3 ratings exchanged
getConfidenceMultiplier_TiersExchanged(ratingCount) ==
    IF ratingCount >= 50 THEN 100
    ELSE IF ratingCount >= 25 THEN 95
    ELSE IF ratingCount >= 10 THEN 90
    ELSE IF ratingCount >= 3 THEN 80
    ELSE IF ratingCount >= 5 THEN 70
    ELSE 60

getConfidenceMultiplier(ratingCount) ==
    IF ratingCount >= 50 THEN 100
    ELSE IF ratingCount >= 25 THEN 95
    ELSE IF ratingCount >= 10 THEN 90
    ELSE IF ratingCount >= 5 THEN 80
    ELSE IF ratingCount >= 3 THEN 70
    ELSE 60

\* calculateRatingScore without the early return for ratingCount === 0
calculateRatingScore_NoZeroCountReturn(p) ==
    LET averageRating == Default(p.averageRating, 0)
        ratingCount == Default(p.ratingCount, 0)
    IN  MathRound((averageRating - 100) * MaxRating
                     * getConfidenceMultiplier(ratingCount), 4 * 100 * 100)

\* calculateRatingScore: ((averageRating - 1) / 4) * 100 * multiplier, rounded.
\* averageRating is in hundredths, the multiplier in hundredths.
calculateRatingScore(p) ==
    LET averageRating == Default(p.averageRating, 0)
        ratingCount == Default(p.ratingCount, 0)
    IN  IF ratingCount = 0 THEN 0
        ELSE MathRound((averageRating - 100) * MaxRating
                          * getConfidenceMultiplier(ratingCount), 4 * 100 * 100)

\* Math.log10(n) * 15 in thousandths (rounded down), for the n = usageCount + 1
\* of the sample usage counts; not a finite number for n <= 0.
Log10Times15(n) ==
    CASE n < 0 -> NaN
      [] n = 0 -> NegInfinity
      [] n = 1 -> 0
      [] n = 2 -> 4515
      [] n = 10 -> 15000
      [] n = 201 -> 34547

\* calculateUsageScore, computed in thousandths
calculateUsageScore(p) ==
    LET usageCount == Default(p.usageCount, 0)
        daysSinceCreated == Default(p.daysSinceCreated, 0)
        usageVelocity5 == IF daysSinceCreated > 0
                          THEN (usageCount * 5000) \div daysSinceCreated
                          ELSE usageCount * 5000
        baseScore == Log10Times15(usageCount + 1)
        velocityBonus == Min(usageVelocity5, 20000)
    IN  IF usageCount = 0 THEN 0
        \* NaN + x, Math.min(NaN, x) and Math.round(NaN) are NaN; -Infinity
        \* plus a finite bonus, capped and rounded, is -Infinity
        ELSE IF ~IsFiniteNumber(baseScore) THEN baseScore
        ELSE MathRound(Min(baseScore + velocityBonus, MaxUsage * 1000), 1000)

\* calculateRecencyScore without Math.min(recencyScore, this.maxScores.recency)
calculateRecencyScore_NoCap(p) ==
    LET daysSinceCreated == Default(p.daysSinceCreated, 0)
        decayed == Max(0, MaxRecency * 10 - daysSinceCreated * 5)
        bonus == IF p.lastUsedDaysAgo # <<>> /\ p.lastUsedDaysAgo[1] < 7
                 THEN Max(0, 100 - 10 * p.lastUsedDaysAgo[1])
                 ELSE 0
    IN  MathRound(decayed + bonus, 10)

\* calculateRecencyScore, computed in tenths
calculateRecencyScore(p) ==
    LET daysSinceCreated == Default(p.daysSinceCreated, 0)
        decayed == Max(0, MaxRecency * 10 - daysSinceCreated * 5)
        bonus == IF p.lastUsedDaysAgo # <<>> /\ p.lastUsedDaysAgo[1] < 7
                 THEN Max(0, 100 - 10 * p.lastUsedDaysAgo[1])
                 ELSE 0
    IN  MathRound(Min(decayed + bonus, MaxRecency * 10), 10)

\* calculateEngagementScore without Math.min(engagementScore, 30)
calculateEngagementScore_NoCap(p) ==
    LET favoriteCount == Default(p.favoriteCount, 0)
        shareCount == Default(p.shareCount, 0)
        viewCount == Default(p.viewCount, 0)
        commentCount == Default(p.commentCount, 0)
        engagementScore == favoriteCount * 30 + shareCount * 20
                             + commentCount * 15 + viewCount
    IN  MathRound(engagementScore, 10)

\* calculateEngagementScore, computed in tenths
calculateEngagementScore(p) ==
    LET favoriteCount == Default(p.favoriteCount, 0)
        shareCount == Default(p.shareCount, 0)
        viewCount == Default(p.viewCount, 0)
        commentCount == Default(p.commentCount, 0)
        engagementScore == favoriteCount * 30 + shareCount * 20
                             + commentCount * 15 + viewCount
    IN  MathRound(Min(engagementScore, MaxEngagement * 10), 10)

\* The tuples <<rating, usage, recency, engagement>> of sub-scores, among those
\* the sample signals produce, whose weighted sum is an exact tie k + 0.5 and
\* whose sum of double products falls just below the tie (0.4, 0.3, 0.2 and
\* 0.1 are not doubles), so that Math.round gives k.
Ieee754TieBelow ==
    {
      <<-24, 0, 0, 1>>, <<-24, 0, 7, 7>>, <<-24, 0, 10, 1>>, <<-24, 0, 15, 1>>,
      <<-24, 0, 20, 1>>, <<-24, 5, 0, 6>>, <<-24, 5, 7, 2>>, <<-24, 5, 10, 6>>,
      <<-24, 5, 15, 6>>, <<-24, 5, 20, 6>>, <<-24, 10, 20, 1>>, <<-24, 16, 0, 3>>,
      <<-24, 16, 7, 9>>, <<-24, 16, 10, 3>>, <<-24, 20, 15, 1>>, <<-24, 20, 20, 1>>,
      <<-24, 35, 20, 6>>, <<-24, 50, 0, 1>>, <<-24, 50, 7, 7>>, <<-24, 50, 10, 1>>,
      <<-24, 50, 15, 1>>, <<-24, 50, 20, 1>>, <<-22, 0, 10, 3>>, <<-22, 0, 15, 3>>,
      <<-22, 0, 20, 3>>, <<-22, 5, 0, 8>>, <<-22, 5, 10, 8>>, <<-22, 5, 15, 8>>,
      <<-22, 5, 20, 8>>, <<-22, 10, 20, 3>>, <<-22, 16, 0, 5>>, <<-22, 16, 7, 1>>,
      <<-22, 16, 10, 5>>, <<-22, 20, 15, 3>>, <<-22, 20, 20, 3>>, <<-22, 35, 20, 8>>,
      <<-22, 20, 20, -7>>, <<-22, 35, 20, -2>>,
      <<-22, 50, 0, 3>>, <<-20, 16, 10, 7>>, <<-17, 0, 0, 3>>, <<-17, 0, 10, 3>>,
      <<-17, 0, 15, 3>>, <<-17, 0, 20, 3>>, <<-17, 5, 0, 8>>, <<-17, 5, 7, 4>>,
      <<-17, 5, 10, 8>>, <<-17, 5, 15, 8>>, <<-17, 5, 20, 8>>, <<-17, 10, 20, 3>>,
      <<-17, 16, 0, 5>>, <<-17, 16, 7, 1>>, <<-17, 16, 10, 5>>, <<-17, 20, 15, 3>>,
      <<-17, 20, 20, 3>>, <<-15, 16, 0, 7>>, <<-12, 0, 0, 3>>, <<-12, 0, 7, 9>>,
      <<-12, 0, 10, 3>>, <<-12, 0, 15, 3>>, <<-12, 0, 20, 3>>, <<-12, 5, 0, 8>>,
      <<-12, 5, 7, 4>>, <<-12, 5, 10, 8>>, <<-12, 5, 15, 8>>, <<-12, 5, 20, 8>>,
      <<-12, 10, 20, 3>>, <<-12, 16, 0, 5>>, <<-12, 16, 7, 1>>, <<-12, 16, 10, 5>>,
      <<-12, 20, 15, 3>>, <<-12, 20, 20, 3>>, <<-11, 0, 0, 9>>, <<-11, 0, 10, 9>>,
      <<-11, 0, 15, 9>>, <<-11, 0, 20, 9>>, <<-11, 5, 0, 4>>, <<-11, 5, 7, 0>>,
      <<-11, 5, 7, 30>>, <<-11, 5, 10, 4>>, <<-11, 5, 15, 4>>, <<-11, 5, 20, 4>>,
      <<-11, 10, 20, 9>>, <<-11, 16, 0, 1>>, <<-11, 16, 7, 7>>, <<-11, 16, 10, 1>>,
      <<-9, 0, 15, 1>>, <<-9, 0, 20, 1>>, <<-9, 16, 0, 3>>, <<-9, 16, 7, 9>>,
      <<-7, 0, 7, 9>>, <<-7, 0, 10, 3>>, <<-7, 0, 15, 3>>, <<-7, 0, 20, 3>>,
      <<-7, 5, 0, 8>>, <<-7, 5, 7, 4>>, <<-7, 5, 10, 8>>, <<-7, 10, 20, 3>>,
      <<-7, 16, 0, 5>>, <<-7, 16, 7, 1>>, <<-7, 20, 15, 3>>, <<-7, 20, 20, 3>>,
      <<26, 16, 7, 9>>, <<26, 50, 7, 7>>, <<36, 16, 7, 9>>, <<36, 50, 7, 7>>,
      <<70, 16, 7, 3>>, <<75, 16, 7, 3>>, <<80, 16, 7, 3>>, <<90, 16, 7, 3>>,
      <<95, 16, 7, 3>>, <<100, 16, 7, 3>>
    }

\* the Math.round of the weighted sum in calculateScore (weights in tenths)
RoundWeightedSum(ratingScore, usageScore, recencyScore, engagementScore) ==
    LET tenths == ratingScore * WeightRating + usageScore * WeightUsage
                    + recencyScore * WeightRecency
                    + engagementScore * WeightEngagement
    IN  \* only the usage sub-score can be NaN or -Infinity, and the sum and
        \* its Math.round are then the same
        IF ~IsFiniteNumber(usageScore) THEN usageScore
        ELSE IF tenths % 10 = 5
           /\ <<ratingScore, usageScore, recencyScore, engagementScore>>
                 \in Ieee754TieBelow
        THEN (tenths - 5) \div 10
        ELSE MathRound(tenths, 10)

\* calculateScore: the weighted sum, rounded, capped between 0 and 200
MaxTotalScore == 200

\* Math.max(0, Math.min(200, x)): NaN for NaN, 0 for -Infinity
CapScore(x) == IF x = NaN THEN NaN ELSE Max(0, Min(MaxTotalScore, x))

\* calculateScore with the lower cap Math.max(0, ...) left out
calculateScore_NoLowerCap(p) ==
    Min(MaxTotalScore,
        RoundWeightedSum(calculateRatingScore(p), calculateUsageScore(p),
                         calculateRecencyScore(p), calculateEngagementScore(p)))

calculateScore(p) ==
    LET ratingScore == calculateRatingScore(p)
        usageScore == calculateUsageScore(p)
        recencyScore == calculateRecencyScore(p)
        engagementScore == calculateEngagementScore(p)
        totalScore == RoundWeightedSum(ratingScore, usageScore, recencyScore,
                                       engagementScore)
    IN  CapScore(totalScore)

\* Math.round(score * weight) of getScoreBreakdown, the weight in tenths
RoundContribution(score, weight) ==
    IF ~IsFiniteNumber(score) THEN score ELSE MathRound(score * weight, 10)

\* one component of the breakdown: { score, weight, contribution }
BreakdownComponent(score, weight) ==
    [score |-> score, weight |-> weight,
     contribution |-> RoundContribution(score, weight)]

\* getScoreBreakdown
getScoreBreakdown(p) ==
    LET ratingScore == calculateRatingScore(p)
        usageScore == calculateUsageScore(p)
        recencyScore == calculateRecencyScore(p)
        engagementScore == calculateEngagementScore(p)
    IN  [rating |-> BreakdownComponent(ratingScore, WeightRating),
         usage |-> BreakdownComponent(usageScore, WeightUsage),
         recency |-> BreakdownComponent(recencyScore, WeightRecency),
         engagement |-> BreakdownComponent(engagementScore,
                                           WeightEngagement)]

(***************************************************************************)
(* Scoring: the signals the engine is called on                            *)
(***************************************************************************)

AverageRatings == {<<0>>, <<50>>, <<100>>, <<250>>, <<400>>, <<500>>}
RatingCounts == {<<>>, <<0>>, <<1>>, <<3>>, <<5>>, <<10>>, <<25>>, <<50>>}
UsageCounts == {<<0>>, <<1>>, <<9>>, <<200>>}
DaysSinceCreated == {<<0>>, <<1>>, <<10>>, <<41>>}
LastUsedDaysAgo == {<<>>, <<0>>, <<3>>, <<7>>}
FavoriteCounts == {<<0>>, <<1>>, <<10>>}
ShareCounts == {<<>>, <<2>>}
CommentCounts == {<<>>, <<1>>}
ViewCounts == {<<>>, <<5>>, <<1000>>}

PromptSignals ==
    [averageRating : AverageRatings, ratingCount : RatingCounts,
     usageCount : UsageCounts, daysSinceCreated : DaysSinceCreated,
     lastUsedDaysAgo : LastUsedDaysAgo, favoriteCount : FavoriteCounts,
     shareCount : ShareCounts, commentCount : CommentCounts,
     viewCount : ViewCounts]

ScoreInit ==
    /\ promptData \in PromptSignals
    /\ scoreOut = 0
    /\ scoreBreakdown = <<>>
    /\ scorePc = "idle"

\* a caller invokes calculateScore(promptData); the method has no throw,
\* every call returns
CallCalculateScore ==
    /\ scorePc = "idle"
    /\ scoreOut' = calculateScore(promptData)
    /\ scorePc' = "scored"
    /\ UNCHANGED <<promptData, scoreBreakdown, notScoreVars>>

\* the caller then invokes getScoreBreakdown(promptData), as
\* batchCalculateScores does for every prompt
CallGetScoreBreakdown ==
    /\ scorePc = "scored"
    /\ scoreBreakdown' = getScoreBreakdown(promptData)
    /\ scorePc' = "explained"
    /\ UNCHANGED <<promptData, scoreOut, notScoreVars>>

ScoreNext ==
    \/ CallCalculateScore
    \/ CallGetScoreBreakdown

\* the scoring engine is not in use
ScoreIdle ==
    /\ promptData = <<>>
    /\ scoreOut = 0
    /\ scoreBreakdown = <<>>
    /\ scorePc = "idle"

\* every field of the signal that is present is non-negative
NonNegativeSignal(p) ==
    \A f \in DOMAIN p : p[f] = <<>> \/ p[f][1] >= 0

\* C1: for a signal whose fields are all non-negative (averageRating within
\* 0..5), the totalScore calculateScore returns is an integer between 0 and 200.
C1_TotalScoreInRange ==
    (scorePc # "idle" /\ NonNegativeSignal(promptData)
        /\ Default(promptData.averageRating, 0) \in 0..500)
    => (scoreOut \in Int /\ 0 <= scoreOut /\ scoreOut <= 200)

\* C1 witness: a scored signal with a negative rating sub-score, where only the
\* lower cap keeps the total at 0
C1_Witness ==
    /\ scorePc = "scored"
    /\ NonNegativeSignal(promptData)
    /\ calculateRatingScore(promptData) < 0
    /\ RoundWeightedSum(calculateRatingScore(promptData),
                        calculateUsageScore(promptData),
                        calculateRecencyScore(promptData),
                        calculateEngagementScore(promptData)) < 0
    /\ scoreOut = 0

\* the fields of a signal that are counts
CountFields ==
    {"ratingCount", "usageCount", "daysSinceCreated", "lastUsedDaysAgo",
     "favoriteCount", "shareCount", "commentCount", "viewCount"}

HasNegativeCount(p) ==
    \E f \in CountFields : p[f] # <<>> /\ p[f][1] < 0

\* signals with at least one negative count
NegativeSignals ==
    {p \in [averageRating : {<<0>>, <<400>>, <<500>>},
            ratingCount : {<<>>, <<-1>>, <<10>>},
            usageCount : {<<-5>>, <<-1>>, <<0>>, <<9>>},
            daysSinceCreated : {<<-2>>, <<0>>, <<10>>},
            lastUsedDaysAgo : {<<>>, <<-1>>, <<3>>},
            favoriteCount : {<<-1>>, <<0>>, <<10>>},
            shareCount : {<<>>, <<-2>>},
            commentCount : {<<>>, <<-1>>},
            viewCount : {<<>>, <<-5>>}] : HasNegativeCount(p)}

\* a caller about to pass a signal with a negative count
ScoreInitNegative ==
    /\ promptData \in NegativeSignals
    /\ scoreOut = 0
    /\ scoreBreakdown = <<>>
    /\ scorePc = "idle"

\* C11: when a count field of the signal is negative, calculateScore signals
\* InvalidInput instead of returning a score.
C11_NegativeCountIsInvalidInput ==
    (scorePc # "idle" /\ HasNegativeCount(promptData))
    => scorePc = "InvalidInput"

\* C12: for a signal with ratingCount 0 or absent, the rating sub-score is 0
\* whatever averageRating is, and the rating adds nothing to totalScore: the
\* total is that of the other three sub-scores, the same for every
\* averageRating.
C12_NoRatingsNoRatingScore ==
    (scorePc = "explained" /\ Default(promptData.ratingCount, 0) = 0)
    => /\ scoreBreakdown.rating.score = 0
       /\ scoreBreakdown.rating.contribution = 0
       /\ scoreOut = CapScore(RoundWeightedSum(0,
                          scoreBreakdown.usage.score,
                          scoreBreakdown.recency.score,
                          scoreBreakdown.engagement.score))
       /\ \A a \in AverageRatings :
             calculateScore([promptData EXCEPT !.averageRating = a]) = scoreOut

\* C12 witness: a five-star average with no rating behind it, scored and
\* explained, on a signal whose other sub-scores are positive
C12_Witness ==
    /\ scorePc = "explained"
    /\ promptData.averageRating = <<500>>
    /\ promptData.ratingCount \in {<<>>, <<0>>}
    /\ scoreBreakdown.rating.score = 0
    /\ scoreOut > 0

SumOfContributions(b) ==
    b.rating.contribution + b.usage.contribution
        + b.recency.contribution + b.engagement.contribution

\* contribution = score * weight, the weight in tenths
ContributionIsScoreTimesWeight(c) == c.contribution * 10 = c.score * c.weight

\* C14: the totalScore of calculateScore is the sum of the four contributions
\* getScoreBreakdown reports for the same signal, and each contribution is its
\* score times its weight.
C14_TotalIsSumOfContributions ==
    scorePc = "explained"
    => /\ scoreOut = SumOfContributions(scoreBreakdown)
       /\ ContributionIsScoreTimesWeight(scoreBreakdown.rating)
       /\ ContributionIsScoreTimesWeight(scoreBreakdown.usage)
       /\ ContributionIsScoreTimesWeight(scoreBreakdown.recency)
       /\ ContributionIsScoreTimesWeight(scoreBreakdown.engagement)

\* the signal of the worked example: five stars from 50 ratings, 200 uses,
\* created 10 days ago, 10 favorites, nothing else
ExampleSignal ==
    [averageRating |-> <<500>>, ratingCount |-> <<50>>, usageCount |-> <<200>>,
     daysSinceCreated |-> <<10>>, lastUsedDaysAgo |-> <<>>,
     favoriteCount |-> <<10>>, shareCount |-> <<>>, commentCount |-> <<>>,
     viewCount |-> <<>>]

\* C15: on the example signal the sub-scores are 100, 50, 15 and 30, the
\* contributions 40, 15, 3 and 3, and calculateScore returns 61.
C15_WorkedExample ==
    (scorePc = "explained" /\ promptData = ExampleSignal)
    => /\ scoreBreakdown.rating.score = 100
       /\ scoreBreakdown.usage.score = 50
       /\ scoreBreakdown.recency.score = 15
       /\ scoreBreakdown.engagement.score = 30
       /\ scoreBreakdown.rating.contribution = 40
       /\ scoreBreakdown.usage.contribution = 15
       /\ scoreBreakdown.recency.contribution = 3
       /\ scoreBreakdown.engagement.contribution = 3
       /\ scoreOut = 61

\* C15 witness: the example signal, scored and explained
C15_Witness ==
    /\ scorePc = "explained"
    /\ promptData = ExampleSignal
    /\ scoreOut = 61

\* the signal is within the ranges of the data model: averageRating in
\* [0, 5], every count non-negative
WithinDataModel(p) ==
    /\ NonNegativeSignal(p)
    /\ Default(p.averageRating, 0) \in 0..500

\* C21: for a signal within the data-model ranges the rating sub-score is at
\* most 100, the usage sub-score at most 50, the recency sub-score at most 20
\* (recent-use bonus included) and the engagement sub-score at most 30.
C21_SubScoresWithinMaximum ==
    (scorePc = "explained" /\ WithinDataModel(promptData))
    => /\ scoreBreakdown.rating.score <= MaxRating
       /\ scoreBreakdown.usage.score <= MaxUsage
       /\ scoreBreakdown.recency.score <= MaxRecency
       /\ scoreBreakdown.engagement.score <= MaxEngagement

\* C21 witness: a prompt created today and used today (20 plus a bonus of
\* 10), with 200 uses (base 34.5 plus a bonus of 20) and 1000 views (100
\* engagement points), every sub-score at its maximum
C21_Witness ==
    /\ scorePc = "explained"
    /\ promptData.daysSinceCreated = <<0>>
    /\ promptData.lastUsedDaysAgo = <<0>>
    /\ promptData.usageCount = <<200>>
    /\ promptData.viewCount = <<1000>>
    /\ scoreBreakdown.rating.score = MaxRating
    /\ scoreBreakdown.usage.score = MaxUsage
    /\ scoreBreakdown.recency.score = MaxRecency
    /\ scoreBreakdown.engagement.score = MaxEngagement

\* C30: for a signal with ratingCount >= 1 and averageRating in [0, 5],
\* calculateRatingScore returns a value >= 0, and so does the rating entry of
\* getScoreBreakdown.
C30_RatingScoreNeverNegative ==
    (scorePc = "explained" /\ WithinDataModel(promptData)
        /\ Default(promptData.ratingCount, 0) >= 1)
    => /\ calculateRatingScore(promptData) >= 0
       /\ scoreBreakdown.rating.score >= 0
       /\ scoreBreakdown.rating.contribution >= 0

(***************************************************************************)
(* BadgeEligibilityEngine                                                  *)
(***************************************************************************)

\* this.badgeCriteria: the keys and types, in insertion order (the order
\* Object.entries iterates in)
badgeCriteria ==
    << [badgeId |-> "first-steps", type |-> "submission"],
       [badgeId |-> "getting-started", type |-> "submission"],
       [badgeId |-> "prolific-creator", type |-> "submission"],
       [badgeId |-> "content-machine", type |-> "submission"],
       [badgeId |-> "popular-choice", type |-> "usage"],
       [badgeId |-> "crowd-favorite", type |-> "usage"],
       [badgeId |-> "viral-creator", type |-> "usage"],
       [badgeId |-> "well-received", type |-> "score"],
       [badgeId |-> "highly-rated", type |-> "score"],
       [badgeId |-> "excellence", type |-> "score"],
       [badgeId |-> "perfection", type |-> "score"],
       [badgeId |-> "consistent", type |-> "streak"],
       [badgeId |-> "dedicated", type |-> "streak"],
       [badgeId |-> "trendsetter", type |-> "special"],
       [badgeId |-> "community-favorite", type |-> "special"] >>

BadgeIds == {badgeCriteria[i].badgeId : i \in 1..Len(badgeCriteria)}

\* the check closures with >= written as > (an off-by-one at the thresholds)
criteriaCheck_Strict(badgeId, stats) ==
    CASE badgeId = "first-steps" -> stats.totalPrompts > 1
      [] badgeId = "getting-started" -> stats.totalPrompts > 5
      [] badgeId = "prolific-creator" -> stats.totalPrompts > 25
      [] badgeId = "content-machine" -> stats.totalPrompts > 100
      [] badgeId = "popular-choice" -> stats.totalUsage > 100
      [] badgeId = "crowd-favorite" -> stats.totalUsage > 500
      [] badgeId = "viral-creator" -> stats.totalUsage > 2000
      [] badgeId = "well-received" ->
            stats.averageRating > 350 /\ stats.totalRatings > 5
      [] badgeId = "highly-rated" ->
            stats.averageRating > 400 /\ stats.totalRatings > 10
      [] badgeId = "excellence" ->
            stats.averageRating > 450 /\ stats.totalRatings > 25
      [] badgeId = "perfection" ->
            stats.averageRating > 480 /\ stats.totalRatings > 50
      [] badgeId = "consistent" -> stats.longestStreak > 7
      [] badgeId = "dedicated" -> stats.longestStreak > 30
      [] badgeId = "trendsetter" -> stats.featuredPrompts > 1
      [] badgeId = "community-favorite" -> stats.topRankedPrompts > 3

\* the check closures with the second submission tier asking for 50 prompts,
\* more than the third
criteriaCheck_TiersOutOfOrder(badgeId, stats) ==
    CASE badgeId = "first-steps" -> stats.totalPrompts >= 1
      [] badgeId = "getting-started" -> stats.totalPrompts >= 50
      [] badgeId = "prolific-creator" -> stats.totalPrompts >= 25
      [] badgeId = "content-machine" -> stats.totalPrompts >= 100
      [] badgeId = "popular-choice" -> stats.totalUsage >= 100
      [] badgeId = "crowd-favorite" -> stats.totalUsage >= 500
      [] badgeId = "viral-creator" -> stats.totalUsage >= 2000
      [] badgeId = "well-received" ->
            stats.averageRating >= 350 /\ stats.totalRatings >= 5
      [] badgeId = "highly-rated" ->
            stats.averageRating >= 400 /\ stats.totalRatings >= 10
      [] badgeId = "excellence" ->
            stats.averageRating >= 450 /\ stats.totalRatings >= 25
      [] badgeId = "perfection" ->
            stats.averageRating >= 480 /\ stats.totalRatings >= 50
      [] badgeId = "consistent" -> stats.longestStreak >= 7
      [] badgeId = "dedicated" -> stats.longestStreak >= 30
      [] badgeId = "trendsetter" -> stats.featuredPrompts >= 1
      [] badgeId = "community-favorite" -> stats.topRankedPrompts >= 3

\* this.badgeCriteria[badgeId].check(stats); averageRating in hundredths
criteriaCheck(badgeId, stats) ==
    CASE badgeId = "first-steps" -> stats.totalPrompts >= 1
      [] badgeId = "getting-started" -> stats.totalPrompts >= 5
      [] badgeId = "prolific-creator" -> stats.totalPrompts >= 25
      [] badgeId = "content-machine" -> stats.totalPrompts >= 100
      [] badgeId = "popular-choice" -> stats.totalUsage >= 100
      [] badgeId = "crowd-favorite" -> stats.totalUsage >= 500
      [] badgeId = "viral-creator" -> stats.totalUsage >= 2000
      [] badgeId = "well-received" ->
            stats.averageRating >= 350 /\ stats.totalRatings >= 5
      [] badgeId = "highly-rated" ->
            stats.averageRating >= 400 /\ stats.totalRatings >= 10
      [] badgeId = "excellence" ->
            stats.averageRating >= 450 /\ stats.totalRatings >= 25
      [] badgeId = "perfection" ->
            stats.averageRating >= 480 /\ stats.totalRatings >= 50
      [] badgeId = "consistent" -> stats.longestStreak >= 7
      [] badgeId = "dedicated" -> stats.longestStreak >= 30
      [] badgeId = "trendsetter" -> stats.featuredPrompts >= 1
      [] badgeId = "community-favorite" -> stats.topRankedPrompts >= 3

\* checkEligibility without the test !currentBadgeIds.has(badgeId)
checkEligibility_NoHeldTest(stats, held, now) ==
    LET eligible == SelectSeq(badgeCriteria,
                              LAMBDA c : criteriaCheck(c.badgeId, stats))
    IN  [i \in 1..Len(eligible) |->
            [badgeId |-> eligible[i].badgeId, type |-> eligible[i].type,
             earnedAt |-> now]]

\* checkEligibility(userStats, currentBadges); `now` is what new Date() reads
checkEligibility(stats, held, now) ==
    LET currentBadgeIds == {b.badgeId : b \in held}
        eligible == SelectSeq(badgeCriteria,
                        LAMBDA c : /\ c.badgeId \notin currentBadgeIds
                                   /\ criteriaCheck(c.badgeId, stats))
    IN  [i \in 1..Len(eligible) |->
            [badgeId |-> eligible[i].badgeId, type |-> eligible[i].type,
             earnedAt |-> now]]

\* the badge ids of a list of grants, and the held records a caller makes of them
GrantIds(grants) == {grants[i].badgeId : i \in 1..Len(grants)}
HeldOf(ids) == {[badgeId |-> id] : id \in ids}

(***************************************************************************)
(* Badges: the snapshots and held sets the engine is called on             *)
(***************************************************************************)

\* the latest day the wall clock reaches
MaxClock == 2

\* every combination of the threshold values of the registry
AllUserStats ==
    [totalPrompts : {0, 1, 5, 25, 100},
     totalUsage : {0, 100, 500, 2000},
     averageRating : {0, 349, 350, 400, 450, 480},
     totalRatings : {0, 5, 10, 25, 50},
     longestStreak : {0, 7, 30},
     featuredPrompts : {0, 1},
     topRankedPrompts : {2, 3}]

HeldSamples ==
    { HeldOf({}),
      HeldOf(BadgeIds),
      HeldOf({"first-steps"}),
      HeldOf({"getting-started", "popular-choice", "perfection"}),
      HeldOf({"well-received", "highly-rated", "excellence", "consistent",
              "trendsetter"}),
      HeldOf({"prolific-creator", "content-machine", "crowd-favorite",
              "viral-creator", "dedicated", "community-favorite"}) }

\* the snapshots a user's statistics move between (up and down)
StatsSnapshots ==
    { [totalPrompts |-> 0, totalUsage |-> 0, averageRating |-> 0,
       totalRatings |-> 0, longestStreak |-> 0, featuredPrompts |-> 0,
       topRankedPrompts |-> 0],
      [totalPrompts |-> 5, totalUsage |-> 100, averageRating |-> 350,
       totalRatings |-> 5, longestStreak |-> 7, featuredPrompts |-> 0,
       topRankedPrompts |-> 0],
      [totalPrompts |-> 1, totalUsage |-> 500, averageRating |-> 450,
       totalRatings |-> 25, longestStreak |-> 0, featuredPrompts |-> 1,
       topRankedPrompts |-> 0],
      [totalPrompts |-> 25, totalUsage |-> 0, averageRating |-> 400,
       totalRatings |-> 10, longestStreak |-> 30, featuredPrompts |-> 0,
       topRankedPrompts |-> 3],
      [totalPrompts |-> 100, totalUsage |-> 2000, averageRating |-> 480,
       totalRatings |-> 50, longestStreak |-> 30, featuredPrompts |-> 1,
       topRankedPrompts |-> 3] }

BadgeHistoryInit ==
    /\ eligibleBadges = <<>>
    /\ badgePc = "idle"
    /\ callStats = <<>>
    /\ callHeld = {}
    /\ repeatKind = "none"
    /\ prevEligible = <<>>
    /\ everGranted = {}
    /\ regranted = {}
    /\ disciplined = TRUE

\* one call on any snapshot and any of the held sets
BadgeFnInit ==
    /\ userStats \in AllUserStats
    /\ currentBadges \in HeldSamples
    /\ BadgeHistoryInit

\* a user who starts with no badge, or with one
BadgeInit ==
    /\ userStats \in StatsSnapshots
    /\ currentBadges \in {HeldOf({}), HeldOf({"first-steps"})}
    /\ BadgeHistoryInit

\* the badge engine is not in use
BadgeIdle ==
    /\ userStats = <<>>
    /\ currentBadges = {}
    /\ BadgeHistoryInit

\* A caller invokes checkEligibility(userStats, currentBadges).  The history
\* variables record how the call relates to the call before it: "persisted"
\* when the statistics are those of that call and the held set is its held set
\* plus everything it returned, "same" when both arguments are those of that
\* call, "none" otherwise.  While the caller has persisted every returned grant
\* before calling again (disciplined), everGranted collects the ids returned
\* and regranted those returned a second time.
CallCheckEligibility ==
    LET result == checkEligibility(userStats, currentBadges, clock)
        sameStats == badgePc = "checked" /\ callStats = userStats
        kind == IF sameStats /\ currentBadges = callHeld THEN "same"
                ELSE IF sameStats
                        /\ currentBadges
                             = callHeld \cup HeldOf(GrantIds(eligibleBadges))
                     THEN "persisted"
                     ELSE "none"
        pending == ~ (HeldOf(GrantIds(eligibleBadges)) \subseteq currentBadges)
        stillDisciplined == disciplined /\ ~pending
    IN  /\ eligibleBadges' = result
        /\ badgePc' = "checked"
        /\ callStats' = userStats
        /\ callHeld' = currentBadges
        /\ repeatKind' = kind
        /\ prevEligible' = IF kind = "none" THEN <<>> ELSE eligibleBadges
        /\ disciplined' = stillDisciplined
        /\ everGranted' = IF stillDisciplined
                          THEN everGranted \cup GrantIds(result)
                          ELSE {}
        /\ regranted' = IF stillDisciplined
                        THEN regranted \cup (everGranted \cap GrantIds(result))
                        ELSE {}
        /\ UNCHANGED <<userStats, currentBadges, clock, notBadgeVars>>

\* the caller persists every grant of the last call into the held set
PersistGrants ==
    /\ badgePc = "checked"
    /\ ~ (HeldOf(GrantIds(eligibleBadges)) \subseteq currentBadges)
    /\ currentBadges' = currentBadges \cup HeldOf(GrantIds(eligibleBadges))
    /\ UNCHANGED <<userStats, eligibleBadges, badgePc, callStats, callHeld,
                   repeatKind, prevEligible, everGranted, regranted, disciplined,
                   clock,
                   notBadgeVars>>

\* the user's statistics change, upwards or downwards
ChangeStats ==
    /\ \E s \in StatsSnapshots : s # userStats /\ userStats' = s
    /\ UNCHANGED <<currentBadges, eligibleBadges, badgePc, callStats, callHeld,
                   repeatKind, prevEligible, everGranted, regranted, disciplined,
                   clock,
                   notBadgeVars>>

\* time passes
BadgeTick ==
    /\ clock < MaxClock
    /\ clock' = clock + 1
    /\ UNCHANGED <<badgeVars, notBadgeVars>>

\* the first call of a caller
FirstCheckEligibility == badgePc = "idle" /\ CallCheckEligibility

BadgeFnNext == FirstCheckEligibility

BadgeNext ==
    \/ CallCheckEligibility
    \/ PersistGrants
    \/ ChangeStats
    \/ BadgeTick

(***************************************************************************)
(* Badges: properties                                                      *)
(***************************************************************************)

\* the thresholds of the registry, by family
SubmissionThreshold ==
    [b \in {"first-steps", "getting-started", "prolific-creator",
            "content-machine"} |->
        CASE b = "first-steps" -> 1 [] b = "getting-started" -> 5
          [] b = "prolific-creator" -> 25 [] b = "content-machine" -> 100]
UsageThreshold ==
    [b \in {"popular-choice", "crowd-favorite", "viral-creator"} |->
        CASE b = "popular-choice" -> 100 [] b = "crowd-favorite" -> 500
          [] b = "viral-creator" -> 2000]
RatingThreshold ==
    [b \in {"well-received", "highly-rated", "excellence", "perfection"} |->
        CASE b = "well-received" -> <<350, 5>> [] b = "highly-rated" -> <<400, 10>>
          [] b = "excellence" -> <<450, 25>> [] b = "perfection" -> <<480, 50>>]
StreakThreshold ==
    [b \in {"consistent", "dedicated"} |->
        CASE b = "consistent" -> 7 [] b = "dedicated" -> 30]

\* the badges whose threshold predicate is true on a snapshot
ThresholdsMet(st) ==
    {b \in DOMAIN SubmissionThreshold : st.totalPrompts >= SubmissionThreshold[b]}
    \cup {b \in DOMAIN UsageThreshold : st.totalUsage >= UsageThreshold[b]}
    \cup {b \in DOMAIN RatingThreshold :
            /\ st.averageRating >= RatingThreshold[b][1]
            /\ st.totalRatings >= RatingThreshold[b][2]}
    \cup {b \in DOMAIN StreakThreshold : st.longestStreak >= StreakThreshold[b]}
    \cup {b \in {"trendsetter"} : st.featuredPrompts >= 1}
    \cup {b \in {"community-favorite"} : st.topRankedPrompts >= 3}

\* C2: checkEligibility returns exactly the badges of the 15-entry registry
\* that are not held and whose threshold predicate is true on the snapshot,
\* each once: none that is held or whose predicate is false, and none omitted.
C2_ExactlyUnheldAndMet ==
    badgePc = "checked" =>
        /\ Cardinality(BadgeIds) = 15
        /\ GrantIds(eligibleBadges)
              = {b \in ThresholdsMet(callStats) : [badgeId |-> b] \notin callHeld}
        /\ Len(eligibleBadges) = Cardinality(GrantIds(eligibleBadges))

\* C2 witness: a call that returned a badge, left out a held badge whose
\* predicate is true, and left out an unheld badge whose predicate is false
C2_Witness ==
    /\ badgePc = "checked"
    /\ eligibleBadges # <<>>
    /\ \E b \in ThresholdsMet(callStats) : [badgeId |-> b] \in callHeld
    /\ \E b \in BadgeIds \ ThresholdsMet(callStats) :
          [badgeId |-> b] \notin callHeld

\* C3: granting is idempotent.  A call on the statistics of the call before it
\* and on that call's held set united with what it returned returns the empty
\* list; a call on the same statistics and the same held set returns the same
\* set of badge ids.
C3_Idempotent ==
    /\ repeatKind = "persisted" => eligibleBadges = <<>>
    /\ repeatKind = "same" => GrantIds(eligibleBadges) = GrantIds(prevEligible)

\* C3 witness: the call before returned grants, the caller persisted them and
\* called again on the same statistics
C3_Witness ==
    /\ repeatKind = "persisted"
    /\ prevEligible # <<>>
    /\ callHeld = currentBadges
    /\ eligibleBadges = <<>>

\* C4: while the caller persists every returned grant before the next call,
\* whatever the statistics do in between, no badge id is returned by two calls,
\* and no badge ever leaves the held set.
C4_NeverGrantedTwice ==
    /\ [](regranted = {})
    /\ [][currentBadges \subseteq currentBadges']_vars

\* C4 witness: after persisted grants and a change of statistics, a call that
\* found a badge granted earlier below its threshold and another one at or
\* above its threshold, both still held
C4_Witness ==
    /\ disciplined
    /\ badgePc = "checked"
    /\ \E b \in everGranted :
          [badgeId |-> b] \in callHeld /\ b \notin ThresholdsMet(callStats)
    /\ \E b \in everGranted :
          [badgeId |-> b] \in callHeld /\ b \in ThresholdsMet(callStats)

\* the tiers of each badge family, lowest first
TierFamilies ==
    << <<"first-steps", "getting-started", "prolific-creator",
         "content-machine">>,
       <<"popular-choice", "crowd-favorite", "viral-creator">>,
       <<"well-received", "highly-rated", "excellence", "perfection">>,
       <<"consistent", "dedicated">> >>

\* a set of badge ids that holds, with each tier, every lower tier of its family
DownwardClosed(ids) ==
    \A f \in 1..Len(TierFamilies) :
        \A i \in 1..Len(TierFamilies[f]) :
            TierFamilies[f][i] \in ids
            => \A j \in 1..i : TierFamilies[f][j] \in ids

\* the held set holds nothing but what the calls have granted, each grant
\* persisted before the next call: the caller started from an empty held set
HeldFromEmpty ==
    disciplined /\ currentBadges \subseteq HeldOf(everGranted)

\* C29: the tiers are nested.  Starting from an empty held set, while the
\* caller persists every grant, the held set is downward-closed within each
\* family after any sequence of snapshots: content-machine comes with
\* prolific-creator, getting-started and first-steps, viral-creator with
\* crowd-favorite and popular-choice, perfection with excellence,
\* highly-rated and well-received, dedicated with consistent.
C29_HeldSetDownwardClosed ==
    HeldFromEmpty => DownwardClosed({b.badgeId : b \in currentBadges})

\* C29 witness: the top tier of every family was granted and persisted from
\* an empty held set, and a later call was made on a lower snapshot
C29_Witness ==
    /\ HeldFromEmpty
    /\ badgePc = "checked"
    /\ userStats.totalPrompts = 5
    /\ callStats = userStats
    /\ {"content-machine", "viral-creator", "perfection", "dedicated"}
          \subseteq {b.badgeId : b \in currentBadges}


\* C10: the engine's operations are pure functions of their arguments: two
\* invocations of checkEligibility on the same statistics and the same held
\* set return identical lists, earnedAt included, whatever the wall clock
\* reads at each invocation.
C10_SameInputSameOutput ==
    repeatKind = "same" => eligibleBadges = prevEligible

(***************************************************************************)
(* LeaderboardEngine                                                       *)
(***************************************************************************)

\* a sort that puts elements the comparator ties in reverse input order
StableSort_TiesReversed(seq, cmp) ==
    LET n == Len(seq)
        Before(i, j) == cmp[i][j] < 0 \/ (cmp[i][j] = 0 /\ i > j)
        Position(i) == 1 + Cardinality({j \in 1..n : j # i /\ Before(j, i)})
    IN  [k \in 1..n |-> seq[CHOOSE i \in 1..n : Position(i) = k]]

\* Array.prototype.sort with a comparator, cmp[i][j] being what the comparator
\* returns on (seq[i], seq[j]): a stable sort, so an element comes before
\* another when the comparator puts it first, or when the comparator returns 0
\* and it came first in the input.
StableSort(seq, cmp) ==
    LET n == Len(seq)
        Before(i, j) == cmp[i][j] < 0 \/ (cmp[i][j] = 0 /\ i < j)
        Position(i) == 1 + Cardinality({j \in 1..n : j # i /\ Before(j, i)})
    IN  [k \in 1..n |-> seq[CHOOSE i \in 1..n : Position(i) = k]]

\* Array.prototype.slice(0, limit) for limit >= 0
Slice(seq, limit) == SubSeq(seq, 1, Min(limit, Len(seq)))

\* Array.prototype.reduce((sum, x) => sum + x, 0) over the numbers of seq
SumOver(seq) ==
    LET sum[i \in 0..Len(seq)] == IF i = 0 THEN 0 ELSE sum[i - 1] + seq[i]
    IN  sum[Len(seq)]

\* the comparator of generateGlobalLeaderboard with the sign of the primary
\* key turned (ascending by totalScore)
GlobalCompare_Ascending(a, b) ==
    IF b.totalScore # a.totalScore THEN a.totalScore - b.totalScore
    ELSE IF b.totalPrompts # a.totalPrompts
         THEN b.totalPrompts - a.totalPrompts
         ELSE b.averageRating - a.averageRating

\* the comparator of generateGlobalLeaderboard
GlobalCompare(a, b) ==
    IF b.totalScore # a.totalScore THEN b.totalScore - a.totalScore
    ELSE IF b.totalPrompts # a.totalPrompts
         THEN b.totalPrompts - a.totalPrompts
         ELSE b.averageRating - a.averageRating

\* the entry the final map makes of a user
GlobalEntry(user, index) ==
    [id |-> user.id, isActive |-> user.isActive,
     totalScore |-> user.totalScore, totalPrompts |-> user.totalPrompts,
     averageRating |-> user.averageRating, prompts |-> user.prompts,
     rank |-> index + 1, leaderboardType |-> "global"]

\* generateGlobalLeaderboard with rank: index (0-based ranks)
generateGlobalLeaderboard_RankFromZero(users, limit) ==
    LET eligible == SelectSeq(users,
                       LAMBDA user : user.isActive /\ user.totalScore > 0)
        cmp == [i \in 1..Len(eligible) |-> [j \in 1..Len(eligible) |->
                   GlobalCompare(eligible[i], eligible[j])]]
        top == Slice(StableSort(eligible, cmp), limit)
    IN  [i \in 1..Len(top) |-> GlobalEntry(top[i], i - 2)]

\* generateGlobalLeaderboard(users, limit); index is 0-based in the code
generateGlobalLeaderboard(users, limit) ==
    LET eligible == SelectSeq(users,
                       LAMBDA user : user.isActive /\ user.totalScore > 0)
        cmp == [i \in 1..Len(eligible) |-> [j \in 1..Len(eligible) |->
                   GlobalCompare(eligible[i], eligible[j])]]
        top == Slice(StableSort(eligible, cmp), limit)
    IN  [i \in 1..Len(top) |-> GlobalEntry(top[i], i - 1)]

\* calculateCategoryAverageRating, in hundredths
calculateCategoryAverageRating(prompts) ==
    LET totalRatings ==
            SumOver([i \in 1..Len(prompts) |-> prompts[i].ratingCount])
        weightedSum ==
            SumOver([i \in 1..Len(prompts) |->
                        prompts[i].averageRating * prompts[i].ratingCount])
    IN  IF Len(prompts) = 0 THEN 0
        ELSE IF totalRatings = 0 THEN 0
        ELSE MathRound(weightedSum, totalRatings)

\* the comparator of generateCategoryLeaderboard
CategoryCompare(a, b) ==
    IF b.categoryScore # a.categoryScore THEN b.categoryScore - a.categoryScore
    ELSE IF b.categoryUsage # a.categoryUsage
         THEN b.categoryUsage - a.categoryUsage
         ELSE b.categoryAverageRating - a.categoryAverageRating

\* the first map of generateCategoryLeaderboard: the user with its category
\* aggregates; user.prompts is <<>> when the user has no prompts field
CategoryAggregate(user, categoryId) ==
    LET categoryPrompts ==
            IF user.prompts = <<>> THEN <<>>
            ELSE SelectSeq(user.prompts[1],
                    LAMBDA p : p.categoryId = categoryId /\ p.status = "active")
    IN  [id |-> user.id, isActive |-> user.isActive,
         totalScore |-> user.totalScore, totalPrompts |-> user.totalPrompts,
         averageRating |-> user.averageRating, prompts |-> user.prompts,
         categoryPrompts |-> Len(categoryPrompts),
         categoryScore |->
             SumOver([i \in 1..Len(categoryPrompts) |->
                         categoryPrompts[i].score]),
         categoryUsage |->
             SumOver([i \in 1..Len(categoryPrompts) |->
                         categoryPrompts[i].usageCount]),
         categoryAverageRating |->
             calculateCategoryAverageRating(categoryPrompts)]

\* the entry the final map makes of an aggregated user
CategoryEntry(user, index, categoryId) ==
    [id |-> user.id, isActive |-> user.isActive,
     totalScore |-> user.totalScore, totalPrompts |-> user.totalPrompts,
     averageRating |-> user.averageRating, prompts |-> user.prompts,
     categoryPrompts |-> user.categoryPrompts,
     categoryScore |-> user.categoryScore,
     categoryUsage |-> user.categoryUsage,
     categoryAverageRating |-> user.categoryAverageRating,
     rank |-> index + 1, leaderboardType |-> "category",
     categoryId |-> categoryId]

\* generateCategoryLeaderboard without the filter categoryPrompts > 0
generateCategoryLeaderboard_KeepsEmptyCategory(users, categoryId, limit) ==
    LET active == SelectSeq(users, LAMBDA user : user.isActive)
        inCategory == [i \in 1..Len(active) |->
                          CategoryAggregate(active[i], categoryId)]
        cmp == [i \in 1..Len(inCategory) |-> [j \in 1..Len(inCategory) |->
                   CategoryCompare(inCategory[i], inCategory[j])]]
        top == Slice(StableSort(inCategory, cmp), limit)
    IN  [i \in 1..Len(top) |-> CategoryEntry(top[i], i - 1, categoryId)]

\* generateCategoryLeaderboard(users, categoryId, limit)
generateCategoryLeaderboard(users, categoryId, limit) ==
    LET active == SelectSeq(users, LAMBDA user : user.isActive)
        aggregated == [i \in 1..Len(active) |->
                          CategoryAggregate(active[i], categoryId)]
        inCategory == SelectSeq(aggregated,
                         LAMBDA user : user.categoryPrompts > 0)
        cmp == [i \in 1..Len(inCategory) |-> [j \in 1..Len(inCategory) |->
                   CategoryCompare(inCategory[i], inCategory[j])]]
        top == Slice(StableSort(inCategory, cmp), limit)
    IN  [i \in 1..Len(top) |-> CategoryEntry(top[i], i - 1, categoryId)]

\* calculateTrendingScore whose multiplier grows with age: 1 + age / days
calculateTrendingScore_AgeBoosts(prompt, days, now) ==
    LET age == now - prompt.createdAt
        hundredths == prompt.score * 100 + prompt.usageCount * 2 * 100
                        + prompt.averageRating * 10
    IN  IF days = 0 THEN NaN
        ELSE MathRound(hundredths * (days + age), 100 * days)

\* calculateTrendingScore(prompt, days) when Date.now() reads `now`: times are
\* in days, averageRating in hundredths, days > 0
calculateTrendingScore(prompt, days, now) ==
    LET age == now - prompt.createdAt
        \* ageMultiplier = Math.max(0.1, 1 - age / days) as a fraction
        decayed == 10 * (days - age) >= days
        numerator == IF decayed THEN days - age ELSE 1
        denominator == IF decayed THEN days ELSE 10
        hundredths == prompt.score * 100 + prompt.usageCount * 2 * 100
                        + prompt.averageRating * 10
    IN  \* With days = 0, age / days is Infinity for age > 0 (multiplier
        \* 0.1), NaN for age = 0 (multiplier NaN, Math.max passing NaN on)
        \* and -Infinity for age < 0 (multiplier Infinity, whose product
        \* with 0 is NaN).
        IF days = 0 /\ age = 0 THEN NaN
        ELSE IF days = 0 /\ age < 0
        THEN (IF hundredths = 0 THEN NaN ELSE Infinity)
        ELSE IF days = 0 THEN MathRound(hundredths, 100 * 10)
        ELSE MathRound(hundredths * numerator, 100 * denominator)

\* the filter, sort and slice of generateTrendingLeaderboard, the clock
\* reading `now` throughout
TrendingSorted(prompts, days, limit, now) ==
    LET cutoffDate == now - days
        recent == SelectSeq(prompts,
                     LAMBDA prompt : /\ prompt.status = "active"
                                     /\ prompt.isPublic
                                     /\ prompt.createdAt >= cutoffDate)
        cmp == [i \in 1..Len(recent) |-> [j \in 1..Len(recent) |->
                   calculateTrendingScore(recent[j], days, now)
                     - calculateTrendingScore(recent[i], days, now)]]
    IN  Slice(StableSort(recent, cmp), limit)

\* the final map of generateTrendingLeaderboard, the clock reading `now`
TrendingEntries(top, days, now) ==
    [i \in 1..Len(top) |->
        [id |-> top[i].id, status |-> top[i].status,
         isPublic |-> top[i].isPublic, createdAt |-> top[i].createdAt,
         score |-> top[i].score, usageCount |-> top[i].usageCount,
         averageRating |-> top[i].averageRating,
         rank |-> (i - 1) + 1,
         trendingScore |-> calculateTrendingScore(top[i], days, now),
         leaderboardType |-> "trending"]]

(***************************************************************************)
(* Leaderboards: the collections the engine is called on                   *)
(***************************************************************************)

\* the longest collections of users and of prompts passed to the generators
MaxUsers == 3
MaxCategoryUsers == 2
MaxPrompts == 2

\* all sequences over a set of values up to a length, each element taking its
\* position in the input as its id
CollectionsOf(values, maxLen) ==
    UNION { { [i \in 1..n |-> [f \in DOMAIN v[i] \cup {"id"} |->
                                   IF f = "id" THEN i ELSE v[i][f]]]
              : v \in [1..n -> values] }
            : n \in 0..maxLen }

\* users as the global leaderboard reads them, without a prompts field
GlobalUsers ==
    { [isActive |-> TRUE, totalScore |-> s, totalPrompts |-> k[1],
       averageRating |-> k[2], prompts |-> <<>>]
      : s \in {10, 20}, k \in {<<1, 400>>, <<2, 400>>, <<2, 450>>} }
    \cup { [isActive |-> TRUE, totalScore |-> 0, totalPrompts |-> 1,
            averageRating |-> 400, prompts |-> <<>>],
           [isActive |-> FALSE, totalScore |-> 20, totalPrompts |-> 2,
            averageRating |-> 450, prompts |-> <<>>] }

\* prompts of a user as the category leaderboard reads them
CodePromptA ==
    [categoryId |-> "code-development", status |-> "active", score |-> 10,
     usageCount |-> 5, averageRating |-> 400, ratingCount |-> 2]
CodePromptB ==
    [categoryId |-> "code-development", status |-> "active", score |-> 20,
     usageCount |-> 0, averageRating |-> 0, ratingCount |-> 0]
CodePromptArchived ==
    [categoryId |-> "code-development", status |-> "archived", score |-> 30,
     usageCount |-> 9, averageRating |-> 500, ratingCount |-> 1]
WritingPrompt ==
    [categoryId |-> "writing-content", status |-> "active", score |-> 30,
     usageCount |-> 9, averageRating |-> 500, ratingCount |-> 1]

\* user.prompts: absent (<<>>) or a list
PromptLists ==
    { <<>>, << <<>> >>, << <<CodePromptA>> >>,
      << <<CodePromptA, CodePromptA>> >>, << <<CodePromptArchived>> >>,
      << <<WritingPrompt, CodePromptB>> >>, << <<WritingPrompt>> >> }

CategoryUsers ==
    { [isActive |-> TRUE, totalScore |-> s, totalPrompts |-> 2,
       averageRating |-> 400, prompts |-> ps]
      : s \in {0, 10}, ps \in PromptLists }
    \cup { [isActive |-> FALSE, totalScore |-> 10, totalPrompts |-> 2,
            averageRating |-> 400, prompts |-> << <<CodePromptA>> >>] }

\* prompts as the trending leaderboard reads them; createdAt in days, the
\* clock starting at day 0
TrendingPrompts ==
    { [status |-> "active", isPublic |-> TRUE, createdAt |-> c, score |-> k[1],
       usageCount |-> k[2], averageRating |-> k[3]]
      : c \in {-6, -1, 0},
        k \in {<<100, 0, 0>>, <<28, 0, 0>>, <<10, 5, 450>>} }
    \cup { [status |-> "active", isPublic |-> FALSE, createdAt |-> 0,
            score |-> 100, usageCount |-> 0, averageRating |-> 0],
           [status |-> "archived", isPublic |-> TRUE, createdAt |-> 0,
            score |-> 100, usageCount |-> 0, averageRating |-> 0] }

BoardLimits == {0, 2, 100}
TrendingDays == {2, 7}

BoardInit ==
    /\ \/ /\ collectionKind = "users"
          /\ collection \in CollectionsOf(GlobalUsers, MaxUsers)
                              \cup CollectionsOf(CategoryUsers, MaxCategoryUsers)
          /\ boardArgs \in [limit : BoardLimits,
                            categoryId : {"code-development"}, days : {7}]
       \/ /\ collectionKind = "prompts"
          /\ collection \in CollectionsOf(TrendingPrompts, MaxPrompts)
          /\ boardArgs \in [limit : BoardLimits,
                            categoryId : {"code-development"},
                            days : TrendingDays]
    /\ topPrompts = <<>>
    /\ board = <<>>
    /\ boardPc = "idle"

\* the leaderboard engine is not in use
BoardIdle ==
    /\ collectionKind = "none"
    /\ collection = <<>>
    /\ boardArgs = <<>>
    /\ topPrompts = <<>>
    /\ board = <<>>
    /\ boardPc = "idle"

\* a caller invokes generateGlobalLeaderboard(collection, limit)
CallGlobalLeaderboard ==
    /\ boardPc = "idle"
    /\ collectionKind = "users"
    /\ board' = generateGlobalLeaderboard(collection, boardArgs.limit)
    /\ boardPc' = "global"
    /\ UNCHANGED <<collectionKind, collection, boardArgs, topPrompts, clock,
                   notBoardVars>>

\* a caller invokes generateCategoryLeaderboard(collection, categoryId, limit)
CallCategoryLeaderboard ==
    /\ boardPc = "idle"
    /\ collectionKind = "users"
    /\ board' = generateCategoryLeaderboard(collection, boardArgs.categoryId,
                                            boardArgs.limit)
    /\ boardPc' = "category"
    /\ UNCHANGED <<collectionKind, collection, boardArgs, topPrompts, clock,
                   notBoardVars>>

\* A caller invokes generateTrendingLeaderboard(collection, days, limit): the
\* cutoff date, the filter, the sort (whose comparator reads the clock) and the
\* slice.
TrendingSortStep ==
    /\ boardPc = "idle"
    /\ collectionKind = "prompts"
    /\ topPrompts' = TrendingSorted(collection, boardArgs.days,
                                    boardArgs.limit, clock)
    /\ boardPc' = "sorted"
    /\ UNCHANGED <<collectionKind, collection, boardArgs, board, clock,
                   notBoardVars>>

\* generateTrendingLeaderboard, continued: the final map, which reads the clock
\* again for the trendingScore of each entry, and the return
TrendingMapStep ==
    /\ boardPc = "sorted"
    /\ board' = TrendingEntries(topPrompts, boardArgs.days, clock)
    /\ boardPc' = "trending"
    /\ UNCHANGED <<collectionKind, collection, boardArgs, topPrompts, clock,
                   notBoardVars>>

\* time passes during a call to generateTrendingLeaderboard
BoardTick ==
    /\ boardPc = "sorted"
    /\ clock < MaxClock
    /\ clock' = clock + 1
    /\ UNCHANGED <<boardVars, notBoardVars>>

BoardNext ==
    \/ CallGlobalLeaderboard
    \/ CallCategoryLeaderboard
    \/ TrendingSortStep
    \/ TrendingMapStep
    \/ BoardTick

(***************************************************************************)
(* Leaderboards: properties                                                *)
(***************************************************************************)

BoardReturned == boardPc \in {"global", "category", "trending"}

\* C5: the result of each of the three generators, of length N, carries the
\* ranks 1..N in output order (position i, 0-based, has rank i + 1), also
\* when entries tie on every sort key.
C5_RanksDense ==
    BoardReturned => \A i \in 1..Len(board) : board[i].rank = i

\* C5 witness: a global leaderboard of two or more entries, the first two
\* tied on every sort key
C5_Witness ==
    /\ boardPc = "global"
    /\ Len(board) >= 2
    /\ board[1].totalScore = board[2].totalScore
    /\ board[1].totalPrompts = board[2].totalPrompts
    /\ board[1].averageRating = board[2].averageRating

\* the key (totalScore, totalPrompts, averageRating) of a is lexicographically
\* greater than that of b
KeyGreater(a, b) ==
    \/ a.totalScore > b.totalScore
    \/ a.totalScore = b.totalScore /\ a.totalPrompts > b.totalPrompts
    \/ /\ a.totalScore = b.totalScore /\ a.totalPrompts = b.totalPrompts
       /\ a.averageRating > b.averageRating

\* the users of the collection that are active with a positive total score
EligibleUsers ==
    {i \in 1..Len(collection) :
        collection[i].isActive /\ collection[i].totalScore > 0}

\* C6: generateGlobalLeaderboard returns only active users with totalScore > 0,
\* as many as the limit allows, with the key (totalScore, totalPrompts,
\* averageRating) lexicographically non-increasing along the result, and no
\* eligible user left out has a key greater than that of a user in the result.
C6_GlobalSortedTop ==
    boardPc = "global" =>
        /\ \A i \in 1..Len(board) :
              /\ board[i].id \in EligibleUsers
              /\ board[i].isActive /\ board[i].totalScore > 0
              /\ board[i].totalScore = collection[board[i].id].totalScore
              /\ board[i].totalPrompts = collection[board[i].id].totalPrompts
              /\ board[i].averageRating = collection[board[i].id].averageRating
        /\ Len(board) = Min(boardArgs.limit, Cardinality(EligibleUsers))
        /\ \A i, j \in 1..Len(board) : i < j => ~ KeyGreater(board[j], board[i])
        /\ \A u \in EligibleUsers :
              (\A i \in 1..Len(board) : board[i].id # u)
              => \A i \in 1..Len(board) : ~ KeyGreater(collection[u], board[i])

\* C6 witness: a truncated global leaderboard of two entries that tie on
\* totalScore and are ordered by totalPrompts, an eligible user left out
C6_Witness ==
    /\ boardPc = "global"
    /\ Len(board) = 2
    /\ Cardinality(EligibleUsers) = 3
    /\ board[1].totalScore = board[2].totalScore
    /\ board[1].totalPrompts > board[2].totalPrompts
    /\ \E u \in EligibleUsers : KeyGreater(board[2], collection[u])

\* the user has an active prompt of the category
HasActivePromptIn(user, categoryId) ==
    /\ user.prompts # <<>>
    /\ \E i \in 1..Len(user.prompts[1]) :
          /\ user.prompts[1][i].categoryId = categoryId
          /\ user.prompts[1][i].status = "active"

\* C17: every user generateCategoryLeaderboard returns is active and has at
\* least one active prompt of the requested category; a user without a prompts
\* field, or whose prompts of the category are all not active, is never
\* returned, whatever their totalScore.
C17_CategoryBoardOnlyCategoryUsers ==
    boardPc = "category"
    => \A k \in 1..Len(board) :
          /\ collection[board[k].id].isActive
          /\ HasActivePromptIn(collection[board[k].id], boardArgs.categoryId)
          /\ board[k].categoryPrompts > 0

\* C17 witness: a category leaderboard of one entry, computed from two
\* active users with totalScore 10 under a limit of 100, one of them having
\* only an archived prompt of the category or no prompts field
C17_Witness ==
    /\ boardPc = "category"
    /\ boardArgs.limit = 100
    /\ Len(collection) = 2
    /\ \A i \in 1..2 : collection[i].isActive /\ collection[i].totalScore = 10
    /\ collection[1].prompts \in {<<>>, << <<CodePromptArchived>> >>}
    /\ Len(board) = 1
    /\ board[1].id = 2

\* the trendingScore values of the entries do not grow with the rank
TrendingScoresDescend ==
    \A k \in 1..(Len(board) - 1) :
        board[k].trendingScore >= board[k + 1].trendingScore

\* C23: every entry generateTrendingLeaderboard returns is an active, public
\* prompt created within the last `days` days, and the trendingScore values
\* of the entries are non-increasing with rank, also when the clock advances
\* between the sort and the recomputation of trendingScore for the entries.
C23_TrendingBoardDescends ==
    boardPc = "trending"
    => /\ \A k \in 1..Len(board) :
             /\ board[k].status = "active"
             /\ board[k].isPublic
             \* the call starts on day 0
             /\ board[k].createdAt >= 0 - boardArgs.days
       /\ TrendingScoresDescend

\* the same when the clock does not advance during the call
TrendingBoardDescendsAtOneInstant ==
    (boardPc = "trending" /\ clock = 0) => TrendingScoresDescend

\* a and b are equal on every key of the global sort
GlobalKeysTie(a, b) == ~ KeyGreater(a, b) /\ ~ KeyGreater(b, a)

\* a and b are equal on every key of the category sort
CategoryKeysTie(a, b) ==
    /\ a.categoryScore = b.categoryScore
    /\ a.categoryUsage = b.categoryUsage
    /\ a.categoryAverageRating = b.categoryAverageRating

\* the users of the collection the category leaderboard ranks
CategoryEligibleUsers ==
    {i \in 1..Len(collection) :
        /\ collection[i].isActive
        /\ HasActivePromptIn(collection[i], boardArgs.categoryId)}

\* C24: the leaderboard sorts are stable.  In generateGlobalLeaderboard two
\* eligible users equal on totalScore, totalPrompts and averageRating appear
\* in their input order, and likewise in generateCategoryLeaderboard users
\* equal on categoryScore, categoryUsage and categoryAverageRating; of tied
\* users, those that come first in the input survive the truncation.
C24_SortsStable ==
    /\ boardPc = "global"
         => /\ \A i, j \in 1..Len(board) :
                  (i < j /\ GlobalKeysTie(board[i], board[j]))
                  => board[i].id < board[j].id
            /\ \A u \in EligibleUsers : \A i \in 1..Len(board) :
                  (/\ \A k \in 1..Len(board) : board[k].id # u
                   /\ GlobalKeysTie(collection[u], board[i]))
                  => board[i].id < u
    /\ boardPc = "category"
         => /\ \A i, j \in 1..Len(board) :
                  (i < j /\ CategoryKeysTie(board[i], board[j]))
                  => board[i].id < board[j].id
            /\ \A u \in CategoryEligibleUsers : \A i \in 1..Len(board) :
                  (/\ \A k \in 1..Len(board) : board[k].id # u
                   /\ CategoryKeysTie(
                         CategoryAggregate(collection[u], boardArgs.categoryId),
                         board[i]))
                  => board[i].id < u

\* C24 witness: three eligible users equal on every key of the global sort,
\* truncated to two: the first two of the input are returned, in input order
C24_Witness ==
    /\ boardPc = "global"
    /\ boardArgs.limit = 2
    /\ Cardinality(EligibleUsers) = 3
    /\ \A u \in EligibleUsers : GlobalKeysTie(collection[u], collection[1])
    /\ Len(board) = 2
    /\ board[1].id = 1 /\ board[2].id = 2




(***************************************************************************)
(* Database: score functions and triggers of the schema migration          *)
(*                                                                         *)
(* Tables are carried by the columns the score functions read or write.    *)
(* The rows of users, prompts and badges exist from the start; rating      *)
(* rows and user_badges rows come and go.  Clients are sessions that run   *)
(* one statement at a time, each statement its own transaction at          *)
(* PostgreSQL's default isolation level READ COMMITTED: every statement,   *)
(* the SELECT and the UPDATE inside a PL/pgSQL function included, sees     *)
(* what is committed when it starts plus the transaction's own writes; an  *)
(* UPDATE waits for the row lock of an uncommitted writer.  The audit      *)
(* column updated_at is not carried: the BEFORE UPDATE triggers that set   *)
(* it are dispatched and logged, their assignment is not.                  *)
(***************************************************************************)

Users == {"u1", "u2"}
PromptIds == {"p1", "p2", "p3"}
Sessions == {"s1", "s2"}

\* prompts.user_id, prompts.usage_count and prompts.created_at (in days on
\* the clock) of the three prompt rows
PromptUserId == ("p1" :> "u1") @@ ("p2" :> "u1") @@ ("p3" :> "u2")
PromptUsageCount == ("p1" :> 3) @@ ("p2" :> 30) @@ ("p3" :> 0)
PromptCreatedAt == ("p1" :> 0) @@ ("p2" :> -19) @@ ("p3" :> -30)

\* UNIQUE(prompt_id, user_id): a rating row is identified by its prompt and
\* its rater; the rows that clients write in this model
RatingSlots == {<<"p1", "u1">>, <<"p1", "u2">>, <<"p3", "u1">>}
\* CHECK (score >= 1 AND score <= 5); 0 stands for "no such row"
RatingValues == {2, 5}

\* badges.points_reward of two rows of the sample catalogue
BadgePointsReward == ("First Steps" :> 10) @@ ("Getting Started" :> 25)
BadgeNames == DOMAIN BadgePointsReward

PromptStatuses == {"active", "archived"}

\* the number of client statements of one behaviour
MaxStatements == 2

\* (x)::INTEGER of a non-negative numeric n / d: the nearest integer, a tie
\* going away from zero
CastInteger(n, d) == (2 * n + d) \div (2 * d)

\* the sum of f over the finite set S
SetSum(S, f) ==
    LET sum[T \in SUBSET S] ==
            IF T = {} THEN 0
            ELSE LET x == CHOOSE y \in T : TRUE
                 IN  f[x] + sum[T \ {x}]
    IN  sum[S]

\* calculate_prompt_score, the value assigned to calculated_score: the
\* SELECT reads the rating rows of the prompt in prompt_scores, the prompt's
\* usage_count and its age at NOW()
calculate_prompt_score(prompt_uuid, prompt_scores, now) ==
    LET rows == {sl \in RatingSlots :
                     sl[1] = prompt_uuid /\ prompt_scores[sl] # 0}
        rating_count == Cardinality(rows)
        rating_sum == SetSum(rows, prompt_scores)
        usage_count == PromptUsageCount[prompt_uuid]
        days_old == now - PromptCreatedAt[prompt_uuid]
        \* (COALESCE(AVG(ps.score), 0) * 20)::INTEGER
        rating_component == IF rating_count = 0 THEN 0
                            ELSE CastInteger(20 * rating_sum, rating_count)
    IN  rating_component + Min(usage_count * 2, 50) + Max(20 - days_old, 0)

\* update_user_total_score, the value assigned to new_score.  The users row
\* is LEFT JOINed with the user's active prompts and then with the one row
\* of the subquery that sums the user's badge points, so the aggregate runs
\* over one joined row per active prompt (one row of NULLs if there is
\* none) and each joined row carries the badge points.
update_user_total_score(user_uuid, status, score, user_badges) ==
    LET active == {p \in PromptIds :
                       PromptUserId[p] = user_uuid /\ status[p] = "active"}
        joined_rows == IF active = {} THEN 1 ELSE Cardinality(active)
        badge_points == SetSum(user_badges[user_uuid], BadgePointsReward)
        \* COALESCE(SUM(p.score), 0)
        sum_score == SetSum(active, score)
        \* COALESCE(SUM(ub.badge_points), 0): NULL when the user has no
        \* user_badges row
        sum_badge_points == IF user_badges[user_uuid] = {} THEN 0
                            ELSE joined_rows * badge_points
    IN  sum_score + sum_badge_points

\* CREATE TRIGGER of the timestamp triggers.  columns is the column list of
\* UPDATE OF, empty when the trigger has none.
TimestampTriggers == <<
    [name |-> "update_users_updated_at", timing |-> "BEFORE",
     events |-> {"UPDATE"}, columns |-> {}, table |-> "users",
     function |-> "update_updated_at_column"],
    [name |-> "update_categories_updated_at", timing |-> "BEFORE",
     events |-> {"UPDATE"}, columns |-> {}, table |-> "categories",
     function |-> "update_updated_at_column"],
    [name |-> "update_sub_categories_updated_at", timing |-> "BEFORE",
     events |-> {"UPDATE"}, columns |-> {}, table |-> "sub_categories",
     function |-> "update_updated_at_column"],
    [name |-> "update_prompts_updated_at", timing |-> "BEFORE",
     events |-> {"UPDATE"}, columns |-> {}, table |-> "prompts",
     function |-> "update_updated_at_column"],
    [name |-> "update_badges_updated_at", timing |-> "BEFORE",
     events |-> {"UPDATE"}, columns |-> {}, table |-> "badges",
     function |-> "update_updated_at_column"] >>

\* the score triggers with auto_calculate_prompt_score declared AFTER INSERT
\* OR UPDATE OR DELETE
ScoreTriggers_AlsoOnDelete == <<
    [name |-> "auto_calculate_prompt_score", timing |-> "AFTER",
     events |-> {"INSERT", "UPDATE", "DELETE"}, columns |-> {},
     table |-> "prompt_scores",
     function |-> "trigger_calculate_prompt_score"],
    [name |-> "auto_update_user_score", timing |-> "AFTER",
     events |-> {"UPDATE"}, columns |-> {"score"}, table |-> "prompts",
     function |-> "trigger_update_user_score"] >>

\* CREATE TRIGGER of the score triggers
ScoreTriggers == <<
    [name |-> "auto_calculate_prompt_score", timing |-> "AFTER",
     events |-> {"INSERT", "UPDATE"}, columns |-> {},
     table |-> "prompt_scores",
     function |-> "trigger_calculate_prompt_score"],
    [name |-> "auto_update_user_score", timing |-> "AFTER",
     events |-> {"UPDATE"}, columns |-> {"score"}, table |-> "prompts",
     function |-> "trigger_update_user_score"] >>

\* The triggers with one more, which recomputes a prompt's score whenever
\* the score is written.
Triggers_RecomputeOnScoreWrite ==
    TimestampTriggers \o ScoreTriggers \o
    << [name |-> "auto_recalculate_prompt_score", timing |-> "AFTER",
        events |-> {"UPDATE"}, columns |-> {"score"}, table |-> "prompts",
        function |-> "trigger_calculate_prompt_score"] >>

\* the triggers of the schema, in the order of the migration
Triggers == TimestampTriggers \o ScoreTriggers

\* A row write is [table, event, columns, new]: columns are the columns of
\* the SET list, new the columns of NEW that the trigger functions read
\* (prompt_id is the id of the row when the row is a prompt).
RowWrite(table, event, columns, prompt_id, user_id) ==
    [table |-> table, event |-> event, columns |-> columns,
     new |-> [prompt_id |-> prompt_id, user_id |-> user_id]]

\* the triggers a row write fires, in the order of Triggers
FiredTriggers(write, timing) ==
    SelectSeq(Triggers,
              LAMBDA t : /\ t.timing = timing
                         /\ t.table = write.table
                         /\ write.event \in t.events
                         /\ (t.columns = {}
                             \/ t.columns \cap write.columns # {}))

\* the log entries of the BEFORE triggers of a row write
BeforeLog(write) ==
    LET fired == FiredTriggers(write, "BEFORE")
    IN  [i \in 1..Len(fired) |-> <<"trigger", fired[i].name>>]

\* the calls of the AFTER triggers of a row write: each is a frame of the
\* session's call stack, about to run its trigger function on NEW
AfterFrames(write) ==
    LET fired == FiredTriggers(write, "AFTER")
    IN  [i \in 1..Len(fired) |->
            [trigger |-> fired[i].name, function |-> fired[i].function,
             new |-> write.new, pc |-> "SELECT", local |-> 0]]

\* a direct call SELECT update_user_total_score(user_uuid)
DirectCallFrame(user_uuid) ==
    [trigger |-> "none", function |-> "update_user_total_score",
     new |-> [prompt_id |-> "none", user_id |-> user_uuid],
     pc |-> "SELECT", local |-> 0]

NoWrites == [rating |-> <<>>, score |-> <<>>, total |-> <<>>]
\* A statement is [table, event, prompt, now, alone]: prompt is the rated
\* prompt of a rating write, now is NOW(), the start of the transaction, and
\* alone says that nothing else has committed since that start.
NoStatement == [table |-> "none", event |-> "none", prompt |-> "none",
                now |-> 0, alone |-> TRUE]
Statement(table, event, prompt) ==
    [table |-> table, event |-> event, prompt |-> prompt, now |-> clock,
     alone |-> TRUE]
\* a commit is seen by the sessions that are running a statement
Overtaken(committer) ==
    [s \in Sessions |->
        IF s # committer /\ sessPc[s] = "running"
        THEN [sessStmt[s] EXCEPT !.alone = FALSE] ELSE sessStmt[s]]

\* what a statement of session s sees: the committed rows overlaid with the
\* transaction's own writes
VisibleRatings(s) ==
    [sl \in RatingSlots |->
        IF sessWrites[s].rating # <<>> /\ sessWrites[s].rating[1] = sl
        THEN sessWrites[s].rating[2] ELSE ratings[sl]]
VisibleScore(s) ==
    [p \in PromptIds |->
        IF sessWrites[s].score # <<>> /\ sessWrites[s].score[1] = p
        THEN sessWrites[s].score[2] ELSE promptScore[p]]

\* row locks: another session has an uncommitted write of the row (a
\* statement that commits at once is run by "client", no session)
RatingRowLocked(s, sl) ==
    \E o \in Sessions \ {s} :
        sessWrites[o].rating # <<>> /\ sessWrites[o].rating[1] = sl
PromptRowLocked(s, p) ==
    \E o \in Sessions \ {s} :
        sessWrites[o].score # <<>> /\ sessWrites[o].score[1] = p
UserRowLocked(s, u) ==
    \E o \in Sessions \ {s} :
        sessWrites[o].total # <<>> /\ sessWrites[o].total[1] = u

\* the user whose total a transaction recomputed, "none" if it did not
RecomputedUser(s) ==
    IF sessWrites[s].total = <<>> THEN "none" ELSE sessWrites[s].total[1]

\* the tables after the migration: no rating, no user badge, DEFAULT 0 for
\* prompts.score and users.total_score, DEFAULT 'active' for prompts.status
DbInit ==
    /\ ratings = [sl \in RatingSlots |-> 0]
    /\ promptStatus = [p \in PromptIds |-> "active"]
    /\ promptScore = [p \in PromptIds |-> 0]
    /\ userBadges = [u \in Users |-> {}]
    /\ userTotalScore = [u \in Users |-> 0]
    /\ sessPc = [s \in Sessions |-> "ready"]
    /\ sessStmt = [s \in Sessions |-> NoStatement]
    /\ sessStack = [s \in Sessions |-> <<>>]
    /\ sessLog = [s \in Sessions |-> <<>>]
    /\ sessWrites = [s \in Sessions |-> NoWrites]
    /\ statements = 0

\* the database is not used
DbIdle == DbInit

\* a session starts a statement that writes the rating row sl
StartRatingWrite(s, sl, event, v) ==
    LET write == RowWrite("prompt_scores", event, {"score"}, sl[1], sl[2])
    IN  /\ sessPc[s] = "ready"
        /\ statements < MaxStatements
        /\ ~RatingRowLocked(s, sl)
        /\ sessPc' = [sessPc EXCEPT ![s] = "running"]
        /\ sessStmt' = [sessStmt EXCEPT ![s] =
               Statement("prompt_scores", event, sl[1])]
        /\ sessWrites' = [sessWrites EXCEPT ![s] =
               [NoWrites EXCEPT !.rating = <<sl, v>>]]
        /\ sessLog' = [sessLog EXCEPT ![s] = BeforeLog(write)]
        /\ sessStack' = [sessStack EXCEPT ![s] = AfterFrames(write)]
        /\ statements' = statements + 1

\* INSERT INTO prompt_scores (prompt_id, user_id, score)
InsertRating ==
    /\ \E s \in Sessions, sl \in RatingSlots, v \in RatingValues :
          /\ ratings[sl] = 0
          /\ StartRatingWrite(s, sl, "INSERT", v)
    /\ UNCHANGED <<ratings, promptStatus, promptScore, userBadges,
                   userTotalScore, clock, notDbVars>>

\* UPDATE prompt_scores SET score = v of one rating row
UpdateRating ==
    /\ \E s \in Sessions, sl \in RatingSlots, v \in RatingValues :
          /\ ratings[sl] # 0
          /\ StartRatingWrite(s, sl, "UPDATE", v)
    /\ UNCHANGED <<ratings, promptStatus, promptScore, userBadges,
                   userTotalScore, clock, notDbVars>>

\* SELECT update_user_total_score(u), called by a client
CallUpdateUserTotalScore ==
    /\ \E s \in Sessions, u \in Users :
          /\ sessPc[s] = "ready"
          /\ statements < MaxStatements
          /\ sessPc' = [sessPc EXCEPT ![s] = "running"]
          /\ sessStmt' = [sessStmt EXCEPT ![s] =
                 Statement("none", "CALL", "none")]
          /\ sessWrites' = [sessWrites EXCEPT ![s] = NoWrites]
          /\ sessLog' = [sessLog EXCEPT ![s] = <<>>]
          /\ sessStack' = [sessStack EXCEPT ![s] = <<DirectCallFrame(u)>>]
          /\ statements' = statements + 1
    /\ UNCHANGED <<ratings, promptStatus, promptScore, userBadges,
                   userTotalScore, clock, notDbVars>>

\* the frame on top of the call stack of session s
TopFrame(s) == Head(sessStack[s])

\* trigger_calculate_prompt_score up to the SELECT ... INTO of
\* calculate_prompt_score(NEW.prompt_id)
CalcSelect ==
    /\ \E s \in Sessions :
          /\ sessStack[s] # <<>>
          /\ TopFrame(s).function = "trigger_calculate_prompt_score"
          /\ TopFrame(s).pc = "SELECT"
          /\ LET prompt_uuid == TopFrame(s).new.prompt_id
                 calculated_score ==
                     calculate_prompt_score(prompt_uuid, VisibleRatings(s),
                                            sessStmt[s].now)
             IN  /\ sessStack' = [sessStack EXCEPT ![s] =
                        <<[TopFrame(s) EXCEPT !.pc = "UPDATE",
                                              !.local = calculated_score]>>
                        \o Tail(sessStack[s])]
                 /\ sessLog' = [sessLog EXCEPT ![s] = @ \o
                        << <<"trigger", TopFrame(s).trigger>>,
                           <<"function", "calculate_prompt_score",
                             prompt_uuid>> >>]
    /\ UNCHANGED <<ratings, promptStatus, promptScore, userBadges,
                   userTotalScore, sessPc, sessStmt, sessWrites,
                   statements, clock, notDbVars>>

\* UPDATE prompts SET score = calculated_score of calculate_prompt_score,
\* the triggers of that write, and the return of the trigger function
CalcUpdate ==
    /\ \E s \in Sessions :
          /\ sessStack[s] # <<>>
          /\ TopFrame(s).function = "trigger_calculate_prompt_score"
          /\ TopFrame(s).pc = "UPDATE"
          /\ LET prompt_uuid == TopFrame(s).new.prompt_id
                 write == RowWrite("prompts", "UPDATE", {"score"},
                                   prompt_uuid, PromptUserId[prompt_uuid])
             IN  /\ ~PromptRowLocked(s, prompt_uuid)
                 /\ sessWrites' = [sessWrites EXCEPT ![s].score =
                        <<prompt_uuid, TopFrame(s).local>>]
                 /\ sessLog' = [sessLog EXCEPT ![s] = @ \o BeforeLog(write)]
                 /\ sessStack' = [sessStack EXCEPT ![s] =
                        AfterFrames(write) \o Tail(sessStack[s])]
    /\ UNCHANGED <<ratings, promptStatus, promptScore, userBadges,
                   userTotalScore, sessPc, sessStmt, statements,
                   clock, notDbVars>>

\* update_user_total_score up to its SELECT ... INTO, called by
\* trigger_update_user_score on NEW.user_id or by a client
UserSelect ==
    /\ \E s \in Sessions :
          /\ sessStack[s] # <<>>
          /\ TopFrame(s).function \in
                 {"trigger_update_user_score", "update_user_total_score"}
          /\ TopFrame(s).pc = "SELECT"
          /\ LET user_uuid == TopFrame(s).new.user_id
                 new_score ==
                     update_user_total_score(user_uuid, promptStatus,
                                             VisibleScore(s), userBadges)
             IN  /\ sessStack' = [sessStack EXCEPT ![s] =
                        <<[TopFrame(s) EXCEPT !.pc = "UPDATE",
                                              !.local = new_score]>>
                        \o Tail(sessStack[s])]
                 /\ sessLog' = [sessLog EXCEPT ![s] = @ \o
                        (IF TopFrame(s).trigger = "none" THEN <<>>
                         ELSE << <<"trigger", TopFrame(s).trigger>> >>)
                        \o << <<"function", "update_user_total_score",
                                user_uuid>> >>]
    /\ UNCHANGED <<ratings, promptStatus, promptScore, userBadges,
                   userTotalScore, sessPc, sessStmt, sessWrites,
                   statements, clock, notDbVars>>

\* UPDATE users SET total_score = new_score of update_user_total_score, the
\* triggers of that write, and the return
UserUpdate ==
    /\ \E s \in Sessions :
          /\ sessStack[s] # <<>>
          /\ TopFrame(s).function \in
                 {"trigger_update_user_score", "update_user_total_score"}
          /\ TopFrame(s).pc = "UPDATE"
          /\ LET user_uuid == TopFrame(s).new.user_id
                 write == RowWrite("users", "UPDATE", {"total_score"},
                                   "none", user_uuid)
             IN  /\ ~UserRowLocked(s, user_uuid)
                 /\ sessWrites' = [sessWrites EXCEPT ![s].total =
                        <<user_uuid, TopFrame(s).local>>]
                 /\ sessLog' = [sessLog EXCEPT ![s] = @ \o BeforeLog(write)]
                 /\ sessStack' = [sessStack EXCEPT ![s] =
                        AfterFrames(write) \o Tail(sessStack[s])]
    /\ UNCHANGED <<ratings, promptStatus, promptScore, userBadges,
                   userTotalScore, sessPc, sessStmt, statements,
                   clock, notDbVars>>

\* the statement of a session and its triggers are done: the transaction
\* commits, its writes become visible and its row locks are released
Commit ==
    /\ \E s \in Sessions :
          /\ sessPc[s] = "running"
          /\ sessStack[s] = <<>>
          /\ LET w == sessWrites[s]
             IN  /\ ratings' = IF w.rating = <<>> THEN ratings
                               ELSE [ratings EXCEPT ![w.rating[1]] =
                                        w.rating[2]]
                 /\ promptScore' = IF w.score = <<>> THEN promptScore
                                   ELSE [promptScore EXCEPT ![w.score[1]] =
                                            w.score[2]]
                 /\ userTotalScore' = IF w.total = <<>> THEN userTotalScore
                                  ELSE [userTotalScore EXCEPT ![w.total[1]] =
                                           w.total[2]]
          /\ sessStmt' = [Overtaken(s) EXCEPT ![s] = NoStatement]
          /\ sessLog' = [sessLog EXCEPT ![s] = <<>>]
          /\ sessWrites' = [sessWrites EXCEPT ![s] = NoWrites]
          /\ sessPc' = [sessPc EXCEPT ![s] = "ready"]
    /\ UNCHANGED <<promptStatus, userBadges, sessStack, statements, clock,
                   notDbVars>>

\* DELETE FROM prompt_scores of one rating row.  No trigger is declared for
\* DELETE, so the statement has no cascade and commits at once; were a
\* trigger to fire, the statement would run it in a session like a write.
DeleteRating ==
    \E sl \in RatingSlots :
        /\ ratings[sl] # 0
        /\ statements < MaxStatements
        /\ IF AfterFrames(RowWrite("prompt_scores", "DELETE", {}, sl[1],
                                   sl[2])) = <<>>
           THEN /\ ~RatingRowLocked("client", sl)
                /\ ratings' = [ratings EXCEPT ![sl] = 0]
                /\ sessStmt' = Overtaken("client")
                /\ statements' = statements + 1
                /\ UNCHANGED <<promptStatus, promptScore, userBadges,
                               userTotalScore, sessPc, sessStack, sessLog,
                               sessWrites, clock, notDbVars>>
           ELSE /\ \E s \in Sessions : StartRatingWrite(s, sl, "DELETE", 0)
                /\ UNCHANGED <<ratings, promptStatus, promptScore,
                               userBadges, userTotalScore, clock, notDbVars>>

\* UPDATE prompts SET status = st of one prompt: status is not in the column
\* list of auto_update_user_score, only the timestamp trigger fires
SetPromptStatus ==
    /\ \E p \in PromptIds, st \in PromptStatuses :
          /\ promptStatus[p] # st
          /\ statements < MaxStatements
          /\ ~PromptRowLocked("client", p)
          /\ AfterFrames(RowWrite("prompts", "UPDATE", {"status"}, p,
                                  PromptUserId[p])) = <<>>
          /\ promptStatus' = [promptStatus EXCEPT ![p] = st]
    /\ sessStmt' = Overtaken("client")
    /\ statements' = statements + 1
    /\ UNCHANGED <<ratings, promptScore, userBadges, userTotalScore, sessPc,
                   sessStack, sessLog, sessWrites, clock, notDbVars>>

\* INSERT INTO user_badges (user_id, badge_id): UNIQUE(user_id, badge_id),
\* no trigger is declared on user_badges
GrantBadge ==
    /\ \E u \in Users, b \in BadgeNames :
          /\ b \notin userBadges[u]
          /\ statements < MaxStatements
          /\ AfterFrames(RowWrite("user_badges", "INSERT", {}, "none", u))
                 = <<>>
          /\ userBadges' = [userBadges EXCEPT ![u] = @ \cup {b}]
    /\ sessStmt' = Overtaken("client")
    /\ statements' = statements + 1
    /\ UNCHANGED <<ratings, promptStatus, promptScore, userTotalScore, sessPc,
                   sessStack, sessLog, sessWrites, clock, notDbVars>>

\* a day passes: NOW() moves on
DbTick ==
    /\ clock < MaxClock
    /\ clock' = clock + 1
    /\ UNCHANGED <<ratings, promptStatus, promptScore, userBadges,
                   userTotalScore, sessPc, sessStmt, sessStack, sessLog,
                   sessWrites, statements, notDbVars>>

DbNext ==
    \/ InsertRating
    \/ UpdateRating
    \/ CallUpdateUserTotalScore
    \/ CalcSelect
    \/ CalcUpdate
    \/ UserSelect
    \/ UserUpdate
    \/ Commit
    \/ DeleteRating
    \/ SetPromptStatus
    \/ GrantBadge
    \/ DbTick

(***************************************************************************)
(* Properties of the score triggers                                        *)
(***************************************************************************)

\* the calls of the score functions in a log, and the triggers in it
FunctionCalls(log) == SelectSeq(log, LAMBDA e : e[1] = "function")
TriggersFired(log) == SelectSeq(log, LAMBDA e : e[1] = "trigger")

\* the statement of session s and its triggers are done, the transaction is
\* about to commit
Done(s) == sessPc[s] = "running" /\ sessStack[s] = <<>>

\* the score of prompt p and the total of user u that the commit of session
\* s leaves in the tables
ScoreAfterCommit(s, p) == VisibleScore(s)[p]
TotalAfterCommit(s, u) ==
    IF RecomputedUser(s) = u THEN sessWrites[s].total[2]
    ELSE userTotalScore[u]

\* session s has run an INSERT or UPDATE of a rating row
RatingWriteDone(s) ==
    /\ Done(s)
    /\ sessStmt[s].table = "prompt_scores"
    /\ sessStmt[s].event \in {"INSERT", "UPDATE"}

\* C7: when an INSERT or UPDATE of a rating row commits, the stored score of
\* the rated prompt equals calculate_prompt_score evaluated on the state the
\* commit leaves: the committed ratings with the one written, the prompt's
\* usage_count and its age at the NOW() of the statement, whatever the
\* sessions did in between.
C7_ScoreRecomputedAfterRatingWrite ==
    \A s \in Sessions :
        RatingWriteDone(s) =>
            ScoreAfterCommit(s, sessStmt[s].prompt) =
                calculate_prompt_score(sessStmt[s].prompt,
                                       VisibleRatings(s), sessStmt[s].now)

\* The same when nothing else committed while the statement ran.
ScoreRecomputedWhenAlone ==
    \A s \in Sessions :
        (RatingWriteDone(s) /\ sessStmt[s].alone) =>
            ScoreAfterCommit(s, sessStmt[s].prompt) =
                calculate_prompt_score(sessStmt[s].prompt,
                                       VisibleRatings(s), sessStmt[s].now)

\* the sum the user's total is meant to be, on the state the commit of
\* session s leaves: the scores of the user's active prompts plus the points
\* of each held badge, once
ActiveScoresPlusBadgePoints(s, u) ==
    SetSum({p \in PromptIds :
                PromptUserId[p] = u /\ promptStatus[p] = "active"},
           VisibleScore(s))
    + SetSum(userBadges[u], BadgePointsReward)

\* C8: when a statement that ran update_user_total_score(u) commits, with
\* nothing else committing while it ran, total_score of u is the sum of the
\* scores of u's active prompts plus the points_reward of each badge u
\* holds, counted once.
C8_TotalIsActiveScoresPlusBadges ==
    \A s \in Sessions :
        (Done(s) /\ RecomputedUser(s) # "none" /\ sessStmt[s].alone) =>
            TotalAfterCommit(s, RecomputedUser(s)) =
                ActiveScoresPlusBadgePoints(s, RecomputedUser(s))

\* the two recomputations of the cascade of a rating write on prompt p
CascadeCalls(p) ==
    << <<"function", "calculate_prompt_score", p>>,
       <<"function", "update_user_total_score", PromptUserId[p]>> >>

\* s is a prefix of t
IsPrefix(s, t) == Len(s) <= Len(t) /\ s = SubSeq(t, 1, Len(s))

\* C9: a rating INSERT or UPDATE runs the prompt-score recomputation and then
\* the owner's total-score recomputation, each once and nothing else: at
\* every moment the score functions called so far are a prefix of the two,
\* what is called plus what is pending never exceeds the two, and when the
\* statement is done both have run and the writes of the cascade have fired
\* only the timestamp triggers besides.
C9_CascadeTwoLevelsOnce ==
    \A s \in Sessions :
        sessStmt[s].table = "prompt_scores" =>
            /\ IsPrefix(FunctionCalls(sessLog[s]),
                        CascadeCalls(sessStmt[s].prompt))
            /\ Len(FunctionCalls(sessLog[s]))
                   + Cardinality({i \in DOMAIN sessStack[s] :
                                      sessStack[s][i].pc = "SELECT"}) <= 2
            /\ sessStack[s] = <<>> =>
                   /\ FunctionCalls(sessLog[s]) =
                          CascadeCalls(sessStmt[s].prompt)
                   /\ TriggersFired(sessLog[s]) =
                          << <<"trigger", "auto_calculate_prompt_score">>,
                             <<"trigger", "update_prompts_updated_at">>,
                             <<"trigger", "auto_update_user_score">>,
                             <<"trigger", "update_users_updated_at">> >>

\* a rating UPDATE has run its whole cascade and is about to commit
C9_Witness ==
    \E s \in Sessions :
        /\ sessStmt[s].table = "prompt_scores"
        /\ sessStmt[s].event = "UPDATE"
        /\ sessPc[s] = "running"
        /\ sessStack[s] = <<>>
        /\ Len(sessLog[s]) = 6
        /\ RecomputedUser(s) = PromptUserId[sessStmt[s].prompt]

\* the sum the user's total is meant to be, on the committed tables
CommittedActiveScoresPlusBadgePoints(u) ==
    SetSum({p \in PromptIds :
                PromptUserId[p] = u /\ promptStatus[p] = "active"},
           promptScore)
    + SetSum(userBadges[u], BadgePointsReward)

\* C27: in every database state reached by rating inserts, updates and
\* deletes, prompt status changes and badge grants, the stored total_score
\* of each user is the sum of the scores of the user's active prompts plus
\* the points of the badges the user holds.
C27_TotalScoreInvariant ==
    \A u \in Users :
        userTotalScore[u] = CommittedActiveScoresPlusBadgePoints(u)

\* C28: a DELETE of a rating row fires no recomputation: it leaves
\* prompts.score and users.total_score as they are and starts no score
\* function; the stored score of a prompt changes only when an INSERT or
\* UPDATE of a rating of that prompt commits, until then it keeps
\* reflecting the deleted rating.
C28_DeleteFiresNoRecomputation ==
    [][/\ DeleteRating
          => /\ promptScore' = promptScore
             /\ userTotalScore' = userTotalScore
             /\ sessStack' = sessStack
             /\ sessLog' = sessLog
       /\ \A p \in PromptIds :
             promptScore'[p] # promptScore[p]
             => \E s \in Sessions :
                   RatingWriteDone(s) /\ sessStmt[s].prompt = p]_vars

\* C28 witness: the only rating of p1, a 5, has been written and deleted
\* again; the stored score of p1 is still the one computed with the rating
C28_Witness ==
    /\ \A sl \in RatingSlots : ratings[sl] = 0
    /\ \A s \in Sessions : sessPc[s] = "ready"
    /\ statements = 2
    /\ promptScore["p1"] =
           calculate_prompt_score("p1", [ratings EXCEPT ![<<"p1", "u1">>] = 5],
                                  clock)
    /\ promptScore["p1"] # calculate_prompt_score("p1", ratings, clock)


(***************************************************************************)
(* Calls of single methods                                                 *)
(*                                                                         *)
(* A caller invokes one method of an engine a few times in a row, with the *)
(* argument lists of fnArgs; fnReturns collects what the calls returned.  *)
(***************************************************************************)

\* the next call is the one numbered Len(fnReturns) + 1
NextCall == Len(fnReturns) + 1
Calling(name) == fnName = name /\ Len(fnReturns) < Len(fnArgs)
Returned(name, n) == fnName = name /\ Len(fnReturns) >= n

\* no method call is under way
FnIdle ==
    /\ fnName = "none"
    /\ fnArgs = <<>>
    /\ fnReturns = <<>>

\* ---- getConfidenceMultiplier ----

\* the largest ratingCount passed
MaxRatingCount == 55

RatingCountPairs ==
    {<<<<a>>, <<b>>>> : a \in 1..MaxRatingCount, b \in 1..MaxRatingCount}

\* a caller invokes getConfidenceMultiplier(ratingCount)
CallGetConfidenceMultiplier ==
    /\ Calling("getConfidenceMultiplier")
    /\ fnReturns' = Append(fnReturns,
                           getConfidenceMultiplier(fnArgs[NextCall][1]))
    /\ UNCHANGED <<fnName, fnArgs, notFnVars>>

\* the multiplier the tiers name, in hundredths
TierMultiplier(ratingCount) ==
    CASE ratingCount \in 1..2 -> 60
      [] ratingCount \in 3..4 -> 70
      [] ratingCount \in 5..9 -> 80
      [] ratingCount \in 10..24 -> 90
      [] ratingCount \in 25..49 -> 95
      [] ratingCount >= 50 -> 100

\* C13: for ratingCount >= 1 the confidence multiplier is 0.6 for 1-2, 0.7
\* for 3-4, 0.8 for 5-9, 0.9 for 10-24, 0.95 for 25-49 and 1.0 from 50 on; it
\* lies in [0.6, 1.0], and a <= b implies multiplier(a) <= multiplier(b).
C13_ConfidenceMonotone ==
    Returned("getConfidenceMultiplier", 2)
    => /\ \A i \in 1..2 :
            /\ fnReturns[i] = TierMultiplier(fnArgs[i][1])
            /\ 60 <= fnReturns[i] /\ fnReturns[i] <= 100
       /\ fnArgs[1][1] <= fnArgs[2][1] => fnReturns[1] <= fnReturns[2]

\* C13 witness: 4 ratings and then 5, the multiplier going from 0.7 to 0.8
C13_Witness ==
    /\ Returned("getConfidenceMultiplier", 2)
    /\ fnArgs = <<<<4>>, <<5>>>>
    /\ fnReturns = <<70, 80>>

\* ---- calculateLongestStreak ----

\* A date is the string 'YYYY-MM-DD' that createdAt.split('T')[0] yields,
\* written <<year, month, day>>.
IsLeapYear(y) == (y % 4 = 0 /\ y % 100 # 0) \/ y % 400 = 0

DaysInMonth(y, m) ==
    CASE m \in {4, 6, 9, 11} -> 30
      [] m = 2 -> IF IsLeapYear(y) THEN 29 ELSE 28
      [] OTHER -> 31

RECURSIVE DaysBeforeMonth(_, _)
DaysBeforeMonth(y, m) ==
    IF m = 1 THEN 0 ELSE DaysBeforeMonth(y, m - 1) + DaysInMonth(y, m - 1)

\* new Date('YYYY-MM-DD') in days: the date is read as midnight UTC, so the
\* milliseconds are 86400000 times the number of days since 1970-01-01
DateParse(date) ==
    LET y == date[1]
        leapDays == ((y - 1969) \div 4) - ((y - 1901) \div 100)
                        + ((y - 1601) \div 400)
    IN  (y - 1970) * 365 + leapDays + DaysBeforeMonth(y, date[2])
            + (date[3] - 1)

\* the order of Array.prototype.sort() without a comparator on these
\* strings: by code units, which for zero-padded 'YYYY-MM-DD' is year, then
\* month, then day; -1, 0 or 1
DateStringCompare(a, b) ==
    CASE a = b -> 0
      [] a[1] < b[1] \/ (a[1] = b[1] /\ a[2] < b[2])
            \/ (a[1] = b[1] /\ a[2] = b[2] /\ a[3] < b[3]) -> -1
      [] OTHER -> 1

\* dates.sort()
SortDates(dates) ==
    StableSort(dates, [i \in 1..Len(dates) |-> [j \in 1..Len(dates) |->
                          DateStringCompare(dates[i], dates[j])]])

\* the loop of calculateLongestStreak from index i on (1-based) over the
\* sorted array; a duplicate day, dayDiff 0, changes nothing
RECURSIVE StreakLoop_DuplicateResets(_, _, _, _)
StreakLoop_DuplicateResets(dates, i, longestStreak, currentStreak) ==
    IF i > Len(dates) THEN longestStreak
    ELSE LET dayDiff == DateParse(dates[i]) - DateParse(dates[i - 1])
         IN  IF dayDiff = 1
             THEN StreakLoop_DuplicateResets(dates, i + 1,
                            Max(longestStreak, currentStreak + 1),
                            currentStreak + 1)
             ELSE StreakLoop_DuplicateResets(dates, i + 1, longestStreak, 1)

RECURSIVE StreakLoop(_, _, _, _)
StreakLoop(dates, i, longestStreak, currentStreak) ==
    IF i > Len(dates) THEN longestStreak
    ELSE LET dayDiff == DateParse(dates[i]) - DateParse(dates[i - 1])
         IN  IF dayDiff = 1
             THEN StreakLoop(dates, i + 1,
                            Max(longestStreak, currentStreak + 1),
                            currentStreak + 1)
             ELSE IF dayDiff > 1
             THEN StreakLoop(dates, i + 1, longestStreak, 1)
             ELSE StreakLoop(dates, i + 1, longestStreak, currentStreak)

\* calculateLongestStreak on the array as sort() has left it
calculateLongestStreak(sorted) ==
    IF Len(sorted) = 0 THEN 0 ELSE StreakLoop(sorted, 2, 1, 1)

\* the longest list of dates passed
MaxDates == 4

\* days around a leap day and around a new year
SampleDates ==
    {<<2024, 2, 28>>, <<2024, 2, 29>>, <<2024, 3, 1>>, <<2024, 12, 31>>,
     <<2025, 1, 1>>, <<2025, 1, 3>>}

RECURSIVE SeqsUpTo(_, _)
SeqsUpTo(S, n) ==
    IF n = 0 THEN {<<>>}
    ELSE LET shorter == SeqsUpTo(S, n - 1)
         IN  shorter \cup {Append(q, x) : q \in shorter, x \in S}

DateLists == {<<<<dates>>>> : dates \in SeqsUpTo(SampleDates, MaxDates)}

\* a caller invokes calculateLongestStreak(dates); the method sorts the
\* caller's array in place, so the call yields the number returned and the
\* array as the call leaves it
CallCalculateLongestStreak ==
    /\ Calling("calculateLongestStreak")
    /\ LET sorted == SortDates(fnArgs[NextCall][1])
       IN  fnReturns' = Append(fnReturns,
                               [value |-> calculateLongestStreak(sorted),
                                dates |-> sorted])
    /\ UNCHANGED <<fnName, fnArgs, notFnVars>>

\* the calendar day after a date
NextDay(date) ==
    IF date[3] < DaysInMonth(date[1], date[2])
    THEN <<date[1], date[2], date[3] + 1>>
    ELSE IF date[2] < 12 THEN <<date[1], date[2] + 1, 1>>
    ELSE <<date[1] + 1, 1, 1>>

\* the number of consecutive calendar days of S that start at date
RECURSIVE RunFrom(_, _)
RunFrom(date, S) ==
    IF NextDay(date) \in S THEN 1 + RunFrom(NextDay(date), S) ELSE 1

\* the length of the longest run of consecutive calendar days in S
LongestRun(S) ==
    IF S = {} THEN 0
    ELSE LET runs == {RunFrom(date, S) : date \in S}
         IN  CHOOSE n \in runs : \A k \in runs : k <= n

Range(seq) == {seq[i] : i \in 1..Len(seq)}

\* C16: for a list of dates in any order, with or without duplicate days,
\* calculateLongestStreak returns the length of the longest run of consecutive
\* calendar days in the list: 0 for the empty list, 1 when no two dates are
\* adjacent days.
C16_LongestStreakIsLongestRun ==
    Returned("calculateLongestStreak", 1)
    => LET dates == fnArgs[1][1]
           days == Range(dates)
       IN  /\ fnReturns[1].value = LongestRun(days)
           /\ dates = <<>> => fnReturns[1].value = 0
           /\ (dates # <<>> /\ \A d \in days : NextDay(d) \notin days)
                 => fnReturns[1].value = 1

\* C16 witness: an unsorted list with a duplicate day, whose run of three
\* days crosses the leap day
C16_Witness ==
    /\ Returned("calculateLongestStreak", 1)
    /\ fnArgs[1][1] = <<<<2024, 3, 1>>, <<2024, 2, 28>>, <<2024, 2, 29>>,
                        <<2024, 2, 29>>>>
    /\ fnReturns[1].value = 3

\* ---- calculateTrendingScore ----

\* the oldest prompt passed, in days
MaxAge == 21

TrendingWindows == {7, 20}

\* two prompts with the same score, usageCount and averageRating, created
\* a1 and a2 days before the calls, and the same window
TrendingPairs ==
    LET Prompt(k, age) ==
            [createdAt |-> 0 - age, score |-> k[1], usageCount |-> k[2],
             averageRating |-> k[3]]
    IN  {<<<<Prompt(k, a1), days>>, <<Prompt(k, a2), days>>>> :
            k \in {<<100, 0, 0>>, <<1, 0, 0>>, <<0, 0, 0>>, <<10, 5, 450>>},
            a1 \in 0..MaxAge, a2 \in 0..MaxAge, days \in TrendingWindows}

\* single calls with a window of 0 days
ZeroWindowCalls ==
    {<<<<[createdAt |-> 0 - age, score |-> k[1], usageCount |-> k[2],
          averageRating |-> k[3]], 0>>>> :
        k \in {<<100, 0, 0>>, <<0, 0, 0>>, <<10, 5, 450>>}, age \in 0..MaxAge}

\* a caller invokes calculateTrendingScore(prompt, days), which reads the
\* clock
CallCalculateTrendingScore ==
    /\ Calling("calculateTrendingScore")
    /\ fnReturns' = Append(fnReturns,
                           calculateTrendingScore(fnArgs[NextCall][1],
                                                  fnArgs[NextCall][2], clock))
    /\ UNCHANGED <<fnName, fnArgs, notFnVars>>

\* the age in days of the prompt of call i, at the call
AgeAtCall(i) == clock - fnArgs[i][1].createdAt

\* two calls on prompts that differ in age only, the first the younger
YoungerThenOlder ==
    /\ Returned("calculateTrendingScore", 2)
    /\ AgeAtCall(1) < AgeAtCall(2)

\* C18 as stated: for fixed score, usageCount and averageRating and two ages
\* a1 < a2 <= days, trendingScore(a1) > trendingScore(a2).
C18_TrendingStrictlyDecreases ==
    (YoungerThenOlder /\ AgeAtCall(1) >= 0 /\ AgeAtCall(2) <= fnArgs[2][2])
    => fnReturns[1] > fnReturns[2]

\* C18 amended: for fixed non-negative score, usageCount and averageRating
\* and two ages a1 < a2, trendingScore(a1) >= trendingScore(a2): the trending
\* score never grows with age.
C18_TrendingNeverIncreases ==
    YoungerThenOlder => fnReturns[1] >= fnReturns[2]

\* C18 witness: score 100 in a window of 20 days, at 19 and at 20 days of
\* age; the multiplier is 0.1 at both and the trending score 10 at both
C18_Witness ==
    /\ YoungerThenOlder
    /\ fnArgs[1][1].score = 100
    /\ fnArgs[1][2] = 20
    /\ AgeAtCall(1) = 19 /\ AgeAtCall(2) = 20
    /\ fnReturns = <<10, 10>>

\* ---- batchCalculateScores ----

\* batchCalculateScores that scores the first prompt for every entry
batchCalculateScores_FirstScoreForAll(prompts) ==
    [i \in 1..Len(prompts) |->
        [prompt |-> prompts[i],
         calculatedScore |-> calculateScore(prompts[1]),
         scoreBreakdown |-> getScoreBreakdown(prompts[1])]]

\* batchCalculateScores: prompts.map(prompt => ({ ...prompt, calculatedScore,
\* scoreBreakdown })); the fields spread from the prompt are kept as `prompt`
batchCalculateScores(prompts) ==
    [i \in 1..Len(prompts) |->
        [prompt |-> prompts[i],
         calculatedScore |-> calculateScore(prompts[i]),
         scoreBreakdown |-> getScoreBreakdown(prompts[i])]]

\* the longest batch passed
MaxBatch == 2

\* three signals of different scores
BatchSignals ==
    LET Signal(averageRating, ratingCount, usageCount, days, favoriteCount) ==
            [averageRating |-> <<averageRating>>,
             ratingCount |-> <<ratingCount>>, usageCount |-> <<usageCount>>,
             daysSinceCreated |-> <<days>>, lastUsedDaysAgo |-> <<>>,
             favoriteCount |-> <<favoriteCount>>, shareCount |-> <<>>,
             commentCount |-> <<>>, viewCount |-> <<>>]
    IN  {Signal(500, 50, 200, 10, 10), Signal(250, 3, 9, 41, 1),
         Signal(0, 0, 0, 0, 0)}

BatchPairs ==
    {<<<<first>>, <<second>>>> :
        first \in SeqsUpTo(BatchSignals, MaxBatch),
        second \in SeqsUpTo(BatchSignals, MaxBatch)}

\* a caller invokes batchCalculateScores(prompts)
CallBatchCalculateScores ==
    /\ Calling("batchCalculateScores")
    /\ fnReturns' = Append(fnReturns,
                           batchCalculateScores(fnArgs[NextCall][1]))
    /\ UNCHANGED <<fnName, fnArgs, notFnVars>>

\* C19: batchCalculateScores returns one result per input prompt, in input
\* order, whose calculatedScore is the calculateScore of that prompt alone:
\* the same whatever other prompts are in the batch and wherever it stands.
C19_BatchOrderIndependent ==
    Returned("batchCalculateScores", 2)
    => \A k \in 1..2 :
          /\ Len(fnReturns[k]) = Len(fnArgs[k][1])
          /\ \A i \in 1..Len(fnReturns[k]) :
                /\ fnReturns[k][i].prompt = fnArgs[k][1][i]
                /\ fnReturns[k][i].calculatedScore
                     = calculateScore(fnArgs[k][1][i])
                /\ \A l \in 1..2 : \A j \in 1..Len(fnReturns[l]) :
                      fnArgs[l][1][j] = fnArgs[k][1][i]
                      => /\ fnReturns[l][j].calculatedScore
                              = fnReturns[k][i].calculatedScore
                         /\ fnReturns[l][j].scoreBreakdown
                              = fnReturns[k][i].scoreBreakdown

\* C19 witness: two prompts of different scores, batched in one order and
\* then in the other
C19_Witness ==
    /\ Returned("batchCalculateScores", 2)
    /\ Len(fnArgs[1][1]) = 2
    /\ fnArgs[2][1] = <<fnArgs[1][1][2], fnArgs[1][1][1]>>
    /\ fnReturns[1][1].calculatedScore = 61
    /\ fnReturns[1][2].calculatedScore # 61
    /\ fnReturns[2][2].calculatedScore = 61

\* ---- applyCategoryAdjustments ----

\* the object literal categoryMultipliers, in hundredths
categoryMultipliers ==
    [c \in {"writing-content", "code-development", "business-marketing",
            "education-learning", "creative-design", "personal-lifestyle"} |->
        CASE c = "code-development" -> 110
          [] c = "education-learning" -> 105
          [] c = "personal-lifestyle" -> 95
          [] OTHER -> 100]

\* names every object literal inherits from Object.prototype; the property
\* read categoryMultipliers[name] yields a function or an object for them
InheritedProperties == {"constructor", "toString", "__proto__"}

\* categoryMultipliers[categoryId] || 1.0 as the number the product uses: an
\* inherited function or object is truthy and converts to NaN
CategoryMultiplier(categoryId) ==
    IF categoryId \in DOMAIN categoryMultipliers
    THEN categoryMultipliers[categoryId]
    ELSE IF categoryId \in InheritedProperties THEN NaN
    ELSE 100

\* applyCategoryAdjustments; its second parameter, promptData, is not read
applyCategoryAdjustments(score, promptDataArg, categoryId) ==
    LET multiplier == CategoryMultiplier(categoryId)
    IN  IF multiplier = NaN THEN NaN ELSE MathRound(score * multiplier, 100)

\* category ids passed: the six of the table, one of no table, and three
\* that name inherited properties
CategoryIds ==
    DOMAIN categoryMultipliers \cup {"data-analysis"} \cup InheritedProperties

AdjustmentCalls ==
    {<<<<score, <<>>, categoryId>>>> :
        score \in 0..MaxTotalScore, categoryId \in CategoryIds}

\* a caller invokes applyCategoryAdjustments(score, promptData, categoryId)
CallApplyCategoryAdjustments ==
    /\ Calling("applyCategoryAdjustments")
    /\ fnReturns' = Append(fnReturns,
                           applyCategoryAdjustments(fnArgs[NextCall][1],
                                                    fnArgs[NextCall][2],
                                                    fnArgs[NextCall][3]))
    /\ UNCHANGED <<fnName, fnArgs, notFnVars>>

\* the factor named for a category id, in hundredths
NamedMultiplier(categoryId) ==
    CASE categoryId = "code-development" -> 110
      [] categoryId = "education-learning" -> 105
      [] categoryId = "personal-lifestyle" -> 95
      [] OTHER -> 100

AdjustedAsNamed ==
    LET score == fnArgs[1][1]
        m == NamedMultiplier(fnArgs[1][3])
    IN  /\ fnReturns[1] = MathRound(score * m, 100)
        /\ m = 100 => fnReturns[1] = score

\* C20: applyCategoryAdjustments(score, promptData, categoryId) returns
\* round(score * m), m being 1.1 for code-development, 1.05 for
\* education-learning, 0.95 for personal-lifestyle and 1.0 for every other
\* id, known or unknown; with m = 1.0 the score comes back unchanged.
C20_CategoryMultiplierApplied ==
    Returned("applyCategoryAdjustments", 1) => AdjustedAsNamed

\* the same for ids that name no inherited property
CategoryMultiplierAppliedToPlainIds ==
    (Returned("applyCategoryAdjustments", 1)
        /\ fnArgs[1][3] \notin InheritedProperties)
    => AdjustedAsNamed

\* ---- calculateUserStats ----

\* calculateUserStats(userData).  A createdAt timestamp is written
\* <<year, month, day, hour>>; createdAt.split('T')[0] is its date.  The
\* activity dates go through a Set, which keeps the first occurrence of each.
\* averageRating is in hundredths.
calculateUserStats(userData) ==
    LET prompts == userData.prompts
        promptScores == userData.promptScores
        usageAnalytics == userData.usageAnalytics
        ratingsReceived ==
            SelectSeq(promptScores,
                      LAMBDA r : \E i \in 1..Len(prompts) :
                                    prompts[i].id = r.promptId)
        totalRatings == Len(ratingsReceived)
        added == [i \in 1..Len(prompts) |-> SubSeq(prompts[i].createdAt, 1, 3)]
                 \o [i \in 1..Len(usageAnalytics) |->
                        SubSeq(usageAnalytics[i].createdAt, 1, 3)]
        first == {i \in 1..Len(added) : \A j \in 1..(i - 1) : added[j] # added[i]}
        activityDates ==
            [k \in 1..Cardinality(first) |->
                added[CHOOSE i \in first :
                         Cardinality({j \in first : j <= i}) = k]]
    IN  [totalPrompts |-> Len(prompts),
         activePrompts |->
             Len(SelectSeq(prompts, LAMBDA p : p.status = "active")),
         totalUsage |->
             SumOver([i \in 1..Len(prompts) |-> prompts[i].usageCount]),
         totalRatings |-> totalRatings,
         averageRating |->
             IF totalRatings > 0
             THEN MathRound(SumOver([i \in 1..totalRatings |->
                                       ratingsReceived[i].score]) * 100,
                            totalRatings)
             ELSE 0,
         longestStreak |-> calculateLongestStreak(SortDates(activityDates)),
         featuredPrompts |-> Len(SelectSeq(prompts, LAMBDA p : p.isFeatured)),
         topRankedPrompts |->
             Len(SelectSeq(prompts,
                           LAMBDA p : p.score # NaN /\ p.score >= 150)),
         currentBadgeCount |-> Len(userData.userBadges)]

\* the most prompts of a user passed
MaxUserPrompts == 3

\* userData: up to MaxUserPrompts prompts, the ratings of prompt 1 and of a
\* prompt of somebody else, and a usage event
UserDataSamples ==
    [prompts :
        CollectionsOf(
            {[status |-> "active", usageCount |-> 5, isFeatured |-> FALSE,
              score |-> 68, createdAt |-> <<2024, 2, 28, 9>>],
             [status |-> "archived", usageCount |-> 0, isFeatured |-> TRUE,
              score |-> 150, createdAt |-> <<2024, 2, 29, 0>>],
             [status |-> "active", usageCount |-> 100, isFeatured |-> FALSE,
              score |-> 180, createdAt |-> <<2024, 2, 28, 23>>]},
            MaxUserPrompts),
     promptScores :
        {<<>>, <<[promptId |-> 9, score |-> 5]>>,
         <<[promptId |-> 1, score |-> 4], [promptId |-> 9, score |-> 1],
           [promptId |-> 1, score |-> 5], [promptId |-> 1, score |-> 5]>>},
     usageAnalytics : {<<>>, <<[createdAt |-> <<2024, 3, 1, 12>>]>>},
     userBadges : {<<>>}]

UserStatsCalls == {<<<<userData>>>> : userData \in UserDataSamples}

\* a caller invokes calculateUserStats(userData)
CallCalculateUserStats ==
    /\ Calling("calculateUserStats")
    /\ fnReturns' = Append(fnReturns,
                           calculateUserStats(fnArgs[NextCall][1]))
    /\ UNCHANGED <<fnName, fnArgs, notFnVars>>

\* the statistics of a user with three prompts of the same score
StatsOfThreePromptsScoring(score) ==
    calculateUserStats(
        [prompts |-> [i \in 1..3 |->
                         [id |-> i, status |-> "active", usageCount |-> 0,
                          isFeatured |-> FALSE, score |-> score,
                          createdAt |-> <<2024, 2, 28, 9>>]],
         promptScores |-> <<>>, usageAnalytics |-> <<>>, userBadges |-> <<>>])

\* C26: for a signal within the data-model ranges calculateScore returns at
\* most 62, so also after applyCategoryAdjustments no score reaches 150:
\* calculateUserStats over prompts with such scores yields topRankedPrompts 0
\* and checkEligibility does not grant community-favorite.
C26_EngineScoresNeverTopRanked ==
    (scorePc # "idle" /\ WithinDataModel(promptData))
    => /\ scoreOut <= 62
       /\ \A categoryId \in CategoryIds :
            LET adjusted == applyCategoryAdjustments(scoreOut, promptData,
                                                     categoryId)
                stats == StatsOfThreePromptsScoring(adjusted)
            IN  /\ adjusted = NaN \/ adjusted < 150
                /\ stats.topRankedPrompts = 0
                /\ "community-favorite"
                     \notin GrantIds(checkEligibility(stats, {}, clock))

\* C26 witness: a signal with every sub-score at its maximum, scored 62
C26_Witness ==
    /\ scorePc = "scored"
    /\ WithinDataModel(promptData)
    /\ scoreOut = 62
    /\ applyCategoryAdjustments(scoreOut, promptData, "code-development") = 68

\* C22: no engine operation modifies its inputs: after the call the arrays
\* and objects passed in have the same elements in the same order as before.
\* Of the operations, calculateLongestStreak is the one that writes to an
\* argument; the others build new arrays with filter and map.
C22_InputsUnchanged ==
    Returned("calculateLongestStreak", 1)
    => fnReturns[1].dates = fnArgs[1][1]

\* C25: no division by zero yields a value that is not finite:
\* calculateTrendingScore with days = 0 returns a finite number, and
\* calculateUserStats returns averageRating 0 when no rating was received.
C25_ZeroDenominatorsSpecialCased ==
    /\ (Returned("calculateTrendingScore", 1) /\ fnArgs[1][2] = 0)
          => IsFiniteNumber(fnReturns[1])
    /\ (Returned("calculateUserStats", 1)
            /\ fnReturns[1].totalRatings = 0)
          => fnReturns[1].averageRating = 0

\* the zero denominators that are special-cased: no rating received in
\* calculateUserStats, and a window of 0 days for a prompt older than the
\* instant of the call
ZeroDenominatorsHandled ==
    /\ (Returned("calculateTrendingScore", 1) /\ fnArgs[1][2] = 0
            /\ AgeAtCall(1) > 0)
          => IsFiniteNumber(fnReturns[1])
    /\ (Returned("calculateUserStats", 1)
            /\ fnReturns[1].totalRatings = 0)
          => fnReturns[1].averageRating = 0

\* ---- the callers ----

FnInit ==
    /\ \/ fnName = "getConfidenceMultiplier" /\ fnArgs \in RatingCountPairs
       \/ fnName = "calculateLongestStreak" /\ fnArgs \in DateLists
       \/ fnName = "calculateTrendingScore"
            /\ fnArgs \in TrendingPairs \cup ZeroWindowCalls
       \/ fnName = "batchCalculateScores" /\ fnArgs \in BatchPairs
       \/ fnName = "applyCategoryAdjustments" /\ fnArgs \in AdjustmentCalls
       \/ fnName = "calculateUserStats" /\ fnArgs \in UserStatsCalls
    /\ fnReturns = <<>>

FnNext ==
    \/ CallGetConfidenceMultiplier
    \/ CallCalculateLongestStreak
    \/ CallCalculateTrendingScore
    \/ CallBatchCalculateScores
    \/ CallApplyCategoryAdjustments
    \/ CallCalculateUserStats

(***************************************************************************)
(* Specifications                                                          *)
(***************************************************************************)

\* calculateScore on every sample signal
InitScore ==
    ScoreInit /\ BadgeIdle /\ BoardIdle /\ DbIdle /\ FnIdle
        /\ clock = 0
SpecScore == InitScore /\ [][ScoreNext]_vars

\* calculateScore on signals with a negative count
InitScoreNegative ==
    ScoreInitNegative /\ BadgeIdle /\ BoardIdle /\ DbIdle /\ FnIdle
        /\ clock = 0
SpecScoreNegative == InitScoreNegative /\ [][ScoreNext]_vars

\* one checkEligibility call on every snapshot and held set
InitBadgeFn ==
    BadgeFnInit /\ ScoreIdle /\ BoardIdle /\ DbIdle /\ FnIdle
        /\ clock = 0
SpecBadgeFn == InitBadgeFn /\ [][BadgeFnNext]_vars

\* sequences of checkEligibility calls of one user
InitBadge ==
    BadgeInit /\ ScoreIdle /\ BoardIdle /\ DbIdle /\ FnIdle
        /\ clock = 0
SpecBadge == InitBadge /\ [][BadgeNext]_vars

\* one call of a leaderboard generator on every sample collection
InitBoard ==
    BoardInit /\ ScoreIdle /\ BadgeIdle /\ DbIdle /\ FnIdle
        /\ clock = 0
SpecBoard == InitBoard /\ [][BoardNext]_vars

\* client sessions on the database
InitDb ==
    DbInit /\ ScoreIdle /\ BadgeIdle /\ BoardIdle /\ FnIdle
        /\ clock = 0
SpecDb == InitDb /\ [][DbNext]_vars

\* calls of single methods
InitCalls ==
    FnInit /\ ScoreIdle /\ BadgeIdle /\ BoardIdle /\ DbIdle
        /\ clock = 0
SpecCalls == InitCalls /\ [][FnNext]_vars

=============================================================================
